---------------------------- MODULE Spec2Model ----------------------------
(***************************************************************************)
(* Verification model of the DJCap reconciliation and enrichment pipeline  *)
(* (djcap.py, djcap_processor.py, src/output_cleanup.py,                   *)
(* src/metadata_extractor.py, frontend/server.py).                         *)
(*                                                                         *)
(* The module holds state machines over disjoint groups of variables:      *)
(*   SpecRate  : the persisted sliding-window Giphy rate limiter           *)
(*   SpecFs    : the staging-file / replace protocol on '<file>.tmp'       *)
(*   SpecMv    : the music-video fetch cache and its in-flight guard       *)
(*   SpecMvFair: SpecMv with worker threads that keep running              *)
(*   SpecHist  : the per-artist gif history selector                       *)
(*   SpecRead  : read_djcap_json against the publishers of SpecFs          *)
(*   SpecDebounce : the callers of process_metadata_update and its         *)
(*               debounce test                                             *)
(*   SpecRateConc : the rate limiter called from two threads               *)
(*   SpecProducer : djcap.py's merge writer on its own                     *)
(*   SpecStamp : the publish stamp of the document                         *)
(*   SpecSweep : the retention sweep of music-video media                  *)
(*   SpecIdle  : cycles on decks that changed track while idle             *)
(*   SpecSameTrack : cycles on decks that show the same track              *)
(*   SpecFlat  : the nesting of the enrichment payloads                    *)
(*   SpecQuiesce : the polling loop of the consumer after the producer     *)
(*               has stopped                                               *)
(*   SpecCleanup : SpecCycle with the cleanup of the document              *)
(*   SpecReadFail : SpecRead with publishes that fail                      *)
(*   SpecMedia : the retention of the frontend's media buckets             *)
(*   SpecCycle : the consumer's reconciliation cycle on its own            *)
(*   SpecPublish : SpecCycle with a publish that may fail                  *)
(*   Spec      : the shared document, the producer's merge writer and the  *)
(*               consumer's reconciliation cycle                           *)
(* A specification leaves the variables of the other groups at their       *)
(* initial values.                                                         *)
(***************************************************************************)
EXTENDS Integers, Sequences, FiniteSets, TLC

VARIABLES
    \* ---- rate limiter (djcap_processor.py 784-841)
    rateTs,       \* _GIPHY_RATE_TS: deque of request timestamps (in memory)
    rateLoaded,   \* _GIPHY_RATE_LOADED
    rateFile,     \* content of giphy_rate_state.json ("timestamps")
    rateNow,      \* time.time(), in clock ticks
    rateAdmit     \* cost of the last _giphy_can_request that returned True, or NoCost

rateVars == <<rateTs, rateLoaded, rateFile, rateNow, rateAdmit>>

VARIABLES
    \* ---- file system view of the shared document and its staging file
    fsInode,      \* inode -> content (sequence of chunks), or Free
    fsTmp,        \* inode the path '<file>.tmp' names, 0 when it does not exist
    fsCanon,      \* inode the canonical path names, 0 when it does not exist
    fsW,          \* per process: position inside its publish, its fd and offset
    fsPub         \* per process: number of publish calls started

fsVars == <<fsInode, fsTmp, fsCanon, fsW, fsPub>>

VARIABLES
    \* ---- music-video fetch cache (djcap_processor.py 48-50, 334-571)
    mvCache,      \* _music_video_cache: track_id -> entry (status, downloaded_at)
    mvInflight,   \* _music_video_inflight: set of track_ids
    mvWorkers,    \* the running _worker threads
    mvThr,        \* per calling thread: position inside _maybe_start_music_video_download
    mvStarted,    \* number of threading.Thread(...).start() calls so far
    now         \* time.time() of the processor, in seconds

mvVars == <<mvCache, mvInflight, mvWorkers, mvThr, mvStarted, now>>

VARIABLES
    \* ---- the shared document and the two processes around it
    scene,        \* the DJ software's screen at the last capture: track and play button of each deck
    doc,          \* the document at the canonical path, NoDoc before the first publish
    pPc,          \* producer: "idle", or "merged" (merge done, write pending)
    pMeta,        \* producer: the metadata dict it is about to write
    pPlay,        \* producer: the play-button readings of its capture
    pN,           \* producer: captures made so far
    cPc,          \* consumer: "idle", or "read" (document read, cycle pending)
    cData,        \* consumer: the data dict it read
    cTime,        \* consumer: current_time of the cycle (line 1696)
    last,         \* consumer: the module globals _last_processed_time, ...
    cyc,          \* history: the last processed cycle (input, output, time)
    prevOut,      \* history: the document the processed cycle before it published
    pub           \* history: per deck, the enrichment the consumer published

docVars == <<scene, doc, pPc, pMeta, pPlay, pN, cPc, cData, cTime, last, cyc, prevOut, pub>>

VARIABLES
    \* ---- per-artist gif history (djcap_processor.py 775-780, 868-954)
    histLoaded,   \* _GIPHY_HISTORY_LOADED
    hist,         \* _GIPHY_HISTORY: artist key -> deque of media ids
    histFile,     \* content of giphy_history.json, NoHistFile when absent
    histLast,     \* history: per artist key, the ids the latest select of this run returned
    histCall      \* history: the latest select call (inputs, result, the deque before)

histVars == <<histLoaded, hist, histFile, histLast, histCall>>

VARIABLES
    \* ---- read_djcap_json inside process_metadata_update (1494-1541, 1693-1704)
    rd,           \* the reader: position, attempt index, result, attempts made
    rdSeen        \* history: the last-processed state when the read began

readVars == <<rd, rdSeen>>

VARIABLES
    \* ---- the callers of process_metadata_update and its debounce test
    dbMode,       \* "watchdog" or "polling" (WATCHDOG_AVAILABLE)
    dbThr,        \* per thread: position, wake-up time of its sleep, current_time
    dbLast,       \* _last_processed_time
    dbPassed      \* history: current_time of the calls that got past the debounce test

debounceVars == <<dbMode, dbThr, dbLast, dbPassed>>

VARIABLES
    \* ---- the publish of process_metadata_update (lines 2153-2173)
    unpublished   \* history: the snapshot of the latest cycle whose publish failed

publishVars == <<unpublished>>

VARIABLES
    \* ---- concurrent callers of the rate limiter (djcap_processor.py 823-841)
    rateThr,      \* per thread: position in its can_request / record_request pair
    rateMade      \* history: the timestamps appended by _giphy_record_request

rateConcVars == <<rateThr, rateMade>>

\* the last_updated stamp: of the document on disk, of the dict the processor
\* read, the clock, where the processor is in its cycle, publishes so far
VARIABLES stampFile, stampData, stampNow, stampPc, stampCount

stampVars == <<stampFile, stampData, stampNow, stampPc, stampCount>>

\* the retention sweep: the deck dict in the document, the media file of its
\* track, the cache entry of the track, the clock, when the deck stopped,
\* processed cycles so far
VARIABLES swDeck, swFile, swCache, swNow, swStopped, swCycles

sweepVars == <<swDeck, swFile, swCache, swNow, swStopped, swCycles>>

\* the nesting of the enrichment payloads in the document on disk
VARIABLES flDoc

flatVars == <<flDoc>>

\* the polling loop of main: os.path.getmtime of the document and last_mtime
VARIABLES qMtime, qLast

quiesceVars == <<qMtime, qLast>>

\* last_mtime = 0 (line 2262) and no document
QuiesceStart == qMtime = 0 /\ qLast = 0

\* frontend/server.py: state.json ("tracks"), the bucket folders under
\* MEDIA_CACHE_DIR, the clock, and the prefetch_media calls made so far
VARIABLES mcTracks, mcFolders, mcNow, mcLog

mediaVars == <<mcTracks, mcFolders, mcNow, mcLog>>

\* the cache keys (_sanitize_cache_key of a track_id) the calls are made for
MediaKeys == {"track_a", "track_b", "track_c"}

\* a key state["tracks"] does not hold
NoInfo == [present |-> FALSE, scheduled |-> FALSE, delete_after |-> 0]

\* no state.json, no bucket, no call yet
MediaStart ==
    /\ mcTracks = [k \in MediaKeys |-> NoInfo]
    /\ mcFolders = {}
    /\ mcNow = 0
    /\ mcLog = <<>>

vars == <<rateVars, fsVars, mvVars, docVars, histVars, readVars, debounceVars,
          publishVars,
          rateConcVars,
          stampVars,
          sweepVars,
          flatVars,
          quiesceVars,
          mediaVars>>

\* what the actions of one group leave alone
notRate == <<fsVars, mvVars, docVars, histVars, readVars, debounceVars, publishVars, rateConcVars, stampVars, sweepVars, flatVars, quiesceVars, mediaVars>>
notFs == <<rateVars, mvVars, docVars, histVars, readVars, debounceVars, publishVars, rateConcVars, stampVars, sweepVars, flatVars, quiesceVars, mediaVars>>
notMv == <<rateVars, fsVars, docVars, histVars, readVars, debounceVars, publishVars, rateConcVars, stampVars, sweepVars, flatVars, quiesceVars, mediaVars>>
notDoc == <<rateVars, fsVars, mvVars, histVars, readVars, debounceVars, publishVars, rateConcVars, stampVars, sweepVars, flatVars, quiesceVars, mediaVars>>
notHist == <<rateVars, fsVars, mvVars, docVars, readVars, debounceVars, publishVars, rateConcVars, stampVars, sweepVars, flatVars, quiesceVars, mediaVars>>
notRead == <<rateVars, fsVars, mvVars, docVars, histVars, debounceVars, publishVars, rateConcVars, stampVars, sweepVars, flatVars, quiesceVars, mediaVars>>
notDebounce == <<rateVars, fsVars, mvVars, docVars, histVars, readVars, publishVars, rateConcVars, stampVars, sweepVars, flatVars, quiesceVars, mediaVars>>
notRateConc == <<fsVars, mvVars, docVars, histVars, readVars, debounceVars, publishVars, stampVars, sweepVars, flatVars, quiesceVars, mediaVars>>

-----------------------------------------------------------------------------
(* Generic helpers *)

Max(a, b) == IF a >= b THEN a ELSE b

Range(s) == {s[i] : i \in 1..Len(s)}

\* n copies of x
RECURSIVE Copies(_, _)
Copies(x, n) == IF n <= 0 THEN <<>> ELSE <<x>> \o Copies(x, n - 1)

-----------------------------------------------------------------------------
(***************************************************************************)
(* RATE LIMITER                                                            *)
(***************************************************************************)

\* GIPHY_MAX_REQUESTS_PER_HOUR is read from the environment (default 40);
\* the model runs with a small ceiling.
GIPHY_MAX_REQUESTS_PER_HOUR == 2

\* The trailing window of 3600 s, in clock ticks of the model.
GiphyWindowTicks == 2

\* Costs handed to _giphy_can_request / _giphy_record_request: 0..MaxCost
MaxCost == 2

\* The clock of the rate limiter runs from 0 to MaxRateTime
MaxRateTime == 3

NoCost == -1

Costs == 0..MaxCost

\* _giphy_prune: popleft while the head is older than the cutoff
RECURSIVE GiphyPrune(_, _)
GiphyPrune(ts, t) ==
    IF ts # <<>> /\ Head(ts) < t - GiphyWindowTicks
    THEN GiphyPrune(Tail(ts), t)
    ELSE ts

\* insertion of x into a sorted sequence (list.sort of the loader)
RECURSIVE SortedInsert(_, _)
SortedInsert(s, x) ==
    IF s = <<>> THEN <<x>>
    ELSE IF x <= Head(s) THEN <<x>> \o s
    ELSE <<Head(s)>> \o SortedInsert(Tail(s), x)

RECURSIVE SortTs(_)
SortTs(s) == IF s = <<>> THEN <<>> ELSE SortedInsert(SortTs(Tail(s)), Head(s))

\* _ensure_giphy_rate_loaded: the in-memory deque after the (possible) load
GiphyLoadedTs == IF rateLoaded THEN rateTs ELSE SortTs(rateFile)

\* _giphy_can_request(cost): the value returned
GiphyCanRequestResult(ts, cost) == (Len(ts) + cost) <= GIPHY_MAX_REQUESTS_PER_HOUR

\* _giphy_record_request(cost): the deque after the appends
GiphyRecorded(ts, cost, t) == ts \o Copies(t, Max(1, cost))

RateStart ==
    /\ rateTs = <<>>
    /\ rateLoaded = FALSE
    /\ rateFile = <<>>
    /\ rateNow = 0
    /\ rateAdmit = NoCost

RateTick ==
    /\ rateNow < MaxRateTime
    /\ rateNow' = rateNow + 1
    /\ UNCHANGED <<rateTs, rateLoaded, rateFile, rateAdmit, notRate>>

GiphyCanRequest ==
    \E cost \in Costs :
        LET pruned == GiphyPrune(GiphyLoadedTs, rateNow) IN
        /\ rateTs' = pruned
        /\ rateLoaded' = TRUE
        /\ rateAdmit' = IF GiphyCanRequestResult(pruned, cost) THEN cost ELSE NoCost
        /\ UNCHANGED <<rateFile, rateNow, notRate>>

\* a record that keeps the timestamps in memory only
GiphyRecordRequestInMemory ==
    /\ rateAdmit # NoCost
    /\ rateTs' = GiphyRecorded(GiphyPrune(GiphyLoadedTs, rateNow), rateAdmit, rateNow)
    /\ rateLoaded' = TRUE
    /\ rateAdmit' = NoCost
    /\ UNCHANGED <<rateFile, rateNow, notRate>>

GiphyRecordRequest ==
    /\ rateAdmit # NoCost
    /\ LET pruned == GiphyPrune(GiphyLoadedTs, rateNow)
           after == GiphyRecorded(pruned, rateAdmit, rateNow) IN
        /\ rateTs' = after
        /\ rateFile' = after
    /\ rateLoaded' = TRUE
    /\ rateAdmit' = NoCost
    /\ UNCHANGED <<rateNow, notRate>>

\* admission checks each thread makes in the concurrent state machine
MaxRateCalls == 2

IdleCaller == [pc |-> "idle", calls |-> 0, snap |-> <<>>]

RateConcStart ==
    /\ rateThr = [t \in {"main", "observer"} |-> IdleCaller]
    /\ rateMade = <<>>

\* _giphy_can_request() of one thread, with the default cost 1
RateConcCheck(t) ==
    LET pruned == GiphyPrune(GiphyLoadedTs, rateNow) IN
    /\ rateThr[t].pc = "idle"
    /\ rateThr[t].calls < MaxRateCalls
    /\ rateTs' = pruned
    /\ rateLoaded' = TRUE
    /\ rateThr' = [rateThr EXCEPT ![t].calls = @ + 1,
                                  ![t].pc = IF GiphyCanRequestResult(pruned, 1)
                                            THEN "admitted" ELSE "idle"]
    /\ UNCHANGED <<rateFile, rateNow, rateAdmit, rateMade>>
    /\ UNCHANGED notRateConc

\* _giphy_record_request() up to the write: prune, append, and the
\* list(_GIPHY_RATE_TS) handed to json.dumps
RateConcAppend(t) ==
    LET pruned == GiphyPrune(GiphyLoadedTs, rateNow)
        after == GiphyRecorded(pruned, 1, rateNow) IN
    /\ rateThr[t].pc = "admitted"
    /\ rateTs' = after
    /\ rateLoaded' = TRUE
    /\ rateMade' = Append(rateMade, rateNow)
    /\ rateThr' = [rateThr EXCEPT ![t].pc = "appended", ![t].snap = after]
    /\ UNCHANGED <<rateFile, rateNow, rateAdmit>>
    /\ UNCHANGED notRateConc

\* GIPHY_RATE_STATE_PATH.write_text(...) of _giphy_record_request
RateConcWrite(t) ==
    /\ rateThr[t].pc = "appended"
    /\ rateFile' = rateThr[t].snap
    /\ rateThr' = [rateThr EXCEPT ![t].pc = "idle", ![t].snap = <<>>]
    /\ UNCHANGED <<rateTs, rateLoaded, rateNow, rateAdmit, rateMade>>
    /\ UNCHANGED notRateConc

\* process restart: the module globals are re-initialised, the file stays
RateRestart ==
    /\ rateLoaded
    /\ rateTs' = <<>>
    /\ rateLoaded' = FALSE
    /\ rateAdmit' = NoCost
    /\ UNCHANGED <<rateFile, rateNow, notRate>>




-----------------------------------------------------------------------------
(***************************************************************************)
(* STAGING FILE AND REPLACE                                                *)
(* Two processes publish the document: djcap.py (save_metadata_to_json,    *)
(* then cleanup_djcap_json through cleanup_output_folder) and              *)
(* djcap_processor.py (process_metadata_update, then cleanup_djcap_json).  *)
(* All three functions stage at the same path '<file>.tmp'.  json.dump     *)
(* reaches the file in several writes; a document is DocChunks chunks.     *)
(***************************************************************************)

\* chunks a document is written in
DocChunks == 2

\* publish calls one process starts
MaxPublishes == 2

Procs == {"djcap", "processor"}

\* the publishing functions each process runs
PublishFns(p) ==
    IF p = "djcap" THEN {"save_metadata_to_json", "cleanup_djcap_json"}
    ELSE {"process_metadata_update", "cleanup_djcap_json"}

Inodes == 1..4

\* the content slot of an inode that is not in use
Free == <<[fn |-> "free", proc |-> "none", n |-> 0]>>

\* a chunk nobody wrote (the gap a write past the end of file leaves)
Hole == [fn |-> "hole", proc |-> "none", n |-> 0]

InitialDoc == [fn |-> "initial", proc |-> "none", n |-> 0]

IdleWriter == [pc |-> "idle", fd |-> 0, off |-> 0, tag |-> Hole]

\* inodes some path or some open file descriptor refers to
FsReferenced(tmp, canon, w) ==
    ({tmp, canon} \cup {w[p].fd : p \in Procs}) \ {0}

\* unreferenced inodes are reclaimed
FsReclaim(inode, tmp, canon, w) ==
    [i \in Inodes |-> IF i \in FsReferenced(tmp, canon, w) THEN inode[i] ELSE Free]

FsFreeInode == CHOOSE i \in Inodes : fsInode[i] = Free

\* write(2) of one chunk at offset off
FsWriteAt(content, off, chunk) ==
    LET padded == content \o Copies(Hole, off - Len(content)) IN
    [i \in 1..Max(Len(padded), off + 1) |->
        IF i = off + 1 THEN chunk ELSE padded[i]]

\* the content is one whole document written by one publish call
FsComplete(content) ==
    /\ Len(content) = DocChunks
    /\ content[1] # Hole
    /\ \A i \in 1..DocChunks : content[i] = content[1]

FsStart ==
    /\ fsInode = [i \in Inodes |-> IF i = 1 THEN Copies(InitialDoc, DocChunks) ELSE Free]
    /\ fsTmp = 0
    /\ fsCanon = 1
    /\ fsW = [p \in Procs |-> IdleWriter]
    /\ fsPub = [p \in Procs |-> 0]

\* open(temp_file, 'w'): creates the file or truncates the one that is there
FsOpen(p) ==
    \E fn \in PublishFns(p) :
        /\ fsW[p].pc = "idle"
        /\ fsPub[p] < MaxPublishes
        /\ fsPub' = [fsPub EXCEPT ![p] = @ + 1]
        /\ LET ino == IF fsTmp = 0 THEN FsFreeInode ELSE fsTmp IN
            /\ fsInode' = [fsInode EXCEPT ![ino] = <<>>]
            /\ fsTmp' = ino
            /\ fsW' = [fsW EXCEPT ![p] =
                        [pc |-> "writing", fd |-> ino, off |-> 0,
                         tag |-> [fn |-> fn, proc |-> p, n |-> fsPub[p] + 1]]]
        /\ UNCHANGED <<fsCanon, notFs>>

\* json.dump(...): one write of the next chunk through the open descriptor
FsWrite(p) ==
    /\ fsW[p].pc = "writing"
    /\ fsW[p].off < DocChunks
    /\ fsInode' = [fsInode EXCEPT ![fsW[p].fd] = FsWriteAt(@, fsW[p].off, fsW[p].tag)]
    /\ fsW' = [fsW EXCEPT ![p].off = @ + 1]
    /\ UNCHANGED <<fsTmp, fsCanon, fsPub, notFs>>

\* leaving the with-block closes the descriptor
FsClose(p) ==
    /\ fsW[p].pc = "writing"
    /\ fsW[p].off = DocChunks
    /\ LET w == [fsW EXCEPT ![p] = [@ EXCEPT !.pc = "closed", !.fd = 0]] IN
        /\ fsW' = w
        /\ fsInode' = FsReclaim(fsInode, fsTmp, fsCanon, w)
    /\ UNCHANGED <<fsTmp, fsCanon, fsPub, notFs>>

\* os.replace(temp_file, output_file) / Path(temp_file).rename(file_path):
\* raises FileNotFoundError when the staging path is gone (caught and logged
\* by every caller), otherwise the canonical path names the staged inode
FsReplace(p) ==
    /\ fsW[p].pc = "closed"
    /\ LET w == [fsW EXCEPT ![p] = IdleWriter] IN
        /\ fsW' = w
        /\ IF fsTmp = 0
           THEN /\ UNCHANGED <<fsTmp, fsCanon>>
                /\ fsInode' = FsReclaim(fsInode, fsTmp, fsCanon, w)
           ELSE /\ fsCanon' = fsTmp
                /\ fsTmp' = 0
                /\ fsInode' = FsReclaim(fsInode, 0, fsTmp, w)
    /\ UNCHANGED <<fsPub, notFs>>

\* cleanup_output_folder: os.remove of every '*.tmp' file of the folder
FsRemoveTmp(p) ==
    /\ fsW[p].pc = "idle"
    /\ fsPub[p] > 0
    /\ fsTmp # 0
    /\ fsTmp' = 0
    /\ fsInode' = FsReclaim(fsInode, 0, fsCanon, fsW)
    /\ UNCHANGED <<fsCanon, fsW, fsPub, notFs>>

-----------------------------------------------------------------------------
(***************************************************************************)
(* TEXT VALUES AND TRACKS                                                  *)
(* A text is a sequence of characters; None is Python's None.              *)
(***************************************************************************)

None == <<"<None>">>

\* bool(x) of a text field (None and '' are falsy)
Truthy(x) == x # None /\ x # <<>>

\* bool(bpm): the capture yields None (0 here) or a number in 60..200
TruthyNum(n) == n # 0

\* f"{x}"
Str(x) == IF x = None THEN <<"N", "o", "n", "e">> ELSE x

\* track_id = f"{title}|{artist}"
TrackId(title, artist) == Str(title) \o <<"|">> \o Str(artist)

\* what the capture can read from a deck: (title, artist, bpm)
Tracks ==
    { [title |-> <<"A">>,           artist |-> <<"X">>,           bpm |-> 120],
      [title |-> <<"A", "|", "B">>, artist |-> <<"C">>,           bpm |-> 0],
      [title |-> <<"A">>,           artist |-> <<"B", "|", "C">>, bpm |-> 0],
      [title |-> <<"A">>,           artist |-> None,              bpm |-> 120] }

\* a deck nothing was read from (title, artist and bpm None)
NoTrack == [title |-> None, artist |-> None, bpm |-> 0]

TrackKeys == {TrackId(t.title, t.artist) : t \in Tracks \cup {NoTrack}}

-----------------------------------------------------------------------------
(***************************************************************************)
(* PER-ARTIST GIF HISTORY                                                  *)
(* _GIPHY_HISTORY maps an artist key to a deque of media ids; it is loaded *)
(* once per process from giphy_history.json and saved after every select.  *)
(* A media id is an opaque token (1, 2, ...); 0 stands for an item that    *)
(* has neither 'id' nor 'url' (gid == "").  A key the dict does not hold   *)
(* reads as the empty deque, as _GIPHY_HISTORY.get(key, deque()) does.     *)
(***************************************************************************)

\* the history bound (200 by default, clamped to 20..2000), scaled down
GIPHY_HISTORY_MAX_IDS_PER_ARTIST == 2

\* largest max_count a caller passes
MaxCount == 3

GifIds == 1..5

\* c.lower() of one character
LowerChar(c) == CASE c = "A" -> "a" [] c = "B" -> "b" [] OTHER -> c

\* s.lower()
RECURSIVE Lower(_)
Lower(s) == IF s = <<>> THEN <<>> ELSE <<LowerChar(Head(s))>> \o Lower(Tail(s))

\* s.lstrip() and s.strip()
RECURSIVE LStrip(_)
LStrip(s) == IF s # <<>> /\ Head(s) = " " THEN LStrip(Tail(s)) ELSE s

RECURSIVE Strip(_)
Strip(s) ==
    IF s # <<>> /\ s[Len(s)] = " " THEN Strip(SubSeq(s, 1, Len(s) - 1)) ELSE LStrip(s)

\* _normalize_artist_key
NormalizeArtistKey(artist) ==
    Strip(IF Truthy(artist) THEN Lower(Strip(Str(artist))) ELSE <<>>)

\* the artists a caller passes
HistArtists == {None, <<" ">>, <<" ", "A">>, <<"b", " ">>}

HistKeys == {NormalizeArtistKey(a) : a \in HistArtists}

\* the while loop of lines 950-951 under the mutation pop() for popleft()
RECURSIVE HistTrimNewest(_)
HistTrimNewest(q) ==
    IF Len(q) > GIPHY_HISTORY_MAX_IDS_PER_ARTIST
    THEN HistTrimNewest(SubSeq(q, 1, Len(q) - 1))
    ELSE q

\* lines 950-951: while len(q) > M: q.popleft()
RECURSIVE HistTrim(_)
HistTrim(q) ==
    IF Len(q) > GIPHY_HISTORY_MAX_IDS_PER_ARTIST THEN HistTrim(Tail(q)) ELSE q

\* line 885: [str(x) for x in ids if x]
RECURSIVE HistCleaned(_)
HistCleaned(ids) ==
    IF ids = <<>> THEN <<>>
    ELSE (IF Head(ids) # 0 THEN <<Head(ids)>> ELSE <<>>) \o HistCleaned(Tail(ids))

\* line 886: cleaned[-M:]
LastOf(s, n) == IF Len(s) <= n THEN s ELSE SubSeq(s, Len(s) - n + 1, Len(s))

NoHistFile == [exists |-> FALSE]

\* _ensure_giphy_history_loaded on a first call: the dict it builds
HistLoadedFrom(file) ==
    [k \in HistKeys |->
        IF file = NoHistFile THEN <<>>
        ELSE LastOf(HistCleaned(file.data[k]), GIPHY_HISTORY_MAX_IDS_PER_ARTIST)]

\* lines 918-925: de-dupe within the batch, keeping the first item of each id
RECURSIVE HistUnique(_, _)
HistUnique(gifs, seen) ==
    IF gifs = <<>> THEN <<>>
    ELSE IF Head(gifs) = 0 \/ Head(gifs) \in seen
         THEN HistUnique(Tail(gifs), seen)
         ELSE <<Head(gifs)>> \o HistUnique(Tail(gifs), seen \cup {Head(gifs)})

\* the orders random.shuffle can leave: the first n places of a shuffled S
RECURSIVE Arrangements(_, _)
Arrangements(S, n) ==
    IF n = 0 THEN {<<>>}
    ELSE UNION {{<<x>> \o r : r \in Arrangements(S \ {x}, n - 1)} : x \in S}

Min(a, b) == IF a <= b THEN a ELSE b

\* lines 927-939 without the partition: unique[:max_count] over every shuffle
HistSelectionsUnpartitioned(artist_key, unique, used_ids, max_count) ==
    LET ids == {unique[i] : i \in 1..Len(unique)}
    IN  Arrangements(ids, Min(max_count, Cardinality(ids)))

\* lines 927-939 with the two lists swapped: (fallback + fresh)[:max_count]
HistSelectionsUsedFirst(artist_key, unique, used_ids, max_count) ==
    LET ids == {unique[i] : i \in 1..Len(unique)}
        fallback == IF artist_key # <<>> THEN ids \cap used_ids ELSE {}
        fresh == ids \ fallback
        nb == Min(max_count, Cardinality(fallback))
        nf == Min(max_count - nb, Cardinality(fresh))
    IN  {b \o f : f \in Arrangements(fresh, nf), b \in Arrangements(fallback, nb)}

\* lines 927-939: (fresh + fallback)[:max_count] over every shuffle
HistSelections(artist_key, unique, used_ids, max_count) ==
    LET ids == {unique[i] : i \in 1..Len(unique)}
        fallback == IF artist_key # <<>> THEN ids \cap used_ids ELSE {}
        fresh == ids \ fallback
        nf == Min(max_count, Cardinality(fresh))
        nb == Min(max_count - nf, Cardinality(fallback))
    IN  {f \o b : f \in Arrangements(fresh, nf), b \in Arrangements(fallback, nb)}

\* the candidate lists a caller passes: runs of ids, and lists with a
\* repeated id and an item without id
RECURSIVE IdRun(_, _)
IdRun(a, b) == IF a > b THEN <<>> ELSE <<a>> \o IdRun(a + 1, b)

GifLists ==
    {IdRun(1, b) : b \in GifIds \cup {0}}
        \cup {IdRun(a, Cardinality(GifIds)) : a \in GifIds}
        \cup {<<0>> \o IdRun(1, b) \o IdRun(1, b) : b \in 1..2}

\* the lists giphy_history.json can hold for a key (written under any bound)
HistFileLists == {<<>>, <<1, 0, 2>>, <<3, 1, 2, 4>>}

NoSelect ==
    [n |-> 0, key |-> <<>>, ids |-> {}, max_count |-> 0, selected |-> <<>>,
     before |-> <<>>, prior |-> {}, fresh_load |-> FALSE, filed |-> <<>>]

\* the deques earlier selects of this run can have left for an artist
OlderQueues ==
    {q \in {IdRun(a, b) : a \in GifIds, b \in GifIds \cup {0}} :
        Len(q) <= GIPHY_HISTORY_MAX_IDS_PER_ARTIST}

\* the ids, in order, the latest select of this run returned for an artist
EarlierSelected ==
    {p \in {IdRun(a, b) : a \in GifIds, b \in GifIds \cup {0}} : Len(p) <= MaxCount}

\* the process starts and finds no history file
HistStart ==
    /\ histLoaded = FALSE
    /\ hist = [k \in HistKeys |-> <<>>]
    /\ histFile = NoHistFile
    /\ histLast = [k \in HistKeys |-> {}]
    /\ histCall = NoSelect

\* the process has not selected yet (the history file is as an earlier run,
\* under any bound, left it), or its latest select for the artist 'a'
\* returned p on top of the deque q and saved the result (lines 941-952)
HistBeforeSelect ==
    /\ histCall = NoSelect
    /\ \/ /\ histLoaded = FALSE
          /\ hist = [k \in HistKeys |-> <<>>]
          /\ histLast = [k \in HistKeys |-> {}]
          /\ histFile \in {NoHistFile} \cup
                {[exists |-> TRUE,
                  data |-> [k \in HistKeys |-> IF k = <<"a">> THEN l ELSE <<>>]] :
                    l \in HistFileLists}
       \/ /\ histLoaded = TRUE
          /\ \E q \in OlderQueues, p \in EarlierSelected :
                /\ p # <<>>
                /\ hist = [k \in HistKeys |-> IF k = <<"a">> THEN HistTrim(q \o p) ELSE <<>>]
                /\ histLast = [k \in HistKeys |-> IF k = <<"a">> THEN Range(p) ELSE {}]
          /\ histFile = [exists |-> TRUE, data |-> hist]

\* _filter_and_select_gifs_for_artist(artist, gifs, max_count)
FilterAndSelectGifsForArtist ==
    /\ histCall.n = 0
    /\ \E artist \in HistArtists, gifs \in GifLists, max_count \in 1..MaxCount :
        IF gifs = <<>>
        THEN /\ histCall' = [NoSelect EXCEPT !.n = histCall.n + 1]
             /\ UNCHANGED <<histLoaded, hist, histFile, histLast>>
        ELSE LET loaded == IF histLoaded THEN hist ELSE HistLoadedFrom(histFile)
                 artist_key == NormalizeArtistKey(artist)
                 used_ids == IF artist_key # <<>>
                             THEN {loaded[artist_key][i] : i \in 1..Len(loaded[artist_key])}
                             ELSE {}
                 unique == HistUnique(gifs, {})
             IN  \E selected \in HistSelections(artist_key, unique, used_ids, max_count) :
                    LET q == HistTrim(loaded[artist_key] \o selected)
                        after == IF artist_key # <<>>
                                 THEN [loaded EXCEPT ![artist_key] = q]
                                 ELSE loaded
                    IN  /\ histLoaded' = TRUE
                        /\ hist' = after
                        /\ histFile' = IF artist_key # <<>>
                                       THEN [exists |-> TRUE, data |-> after]
                                       ELSE histFile
                        /\ histLast' = [histLast EXCEPT ![artist_key] =
                                            {selected[i] : i \in 1..Len(selected)}]
                        /\ histCall' = [n |-> histCall.n + 1, key |-> artist_key,
                                        ids |-> {unique[i] : i \in 1..Len(unique)},
                                        max_count |-> max_count, selected |-> selected,
                                        before |-> loaded[artist_key],
                                        prior |-> histLast[artist_key],
                                        fresh_load |-> ~histLoaded,
                                        filed |-> IF histFile = NoHistFile THEN <<>>
                                                  ELSE histFile.data[artist_key]]
    /\ UNCHANGED notHist

\* the process ends and a new one starts: the in-memory history is gone
HistRestart ==
    /\ histLoaded
    /\ histCall.n = 0
    /\ histLoaded' = FALSE
    /\ hist' = [k \in HistKeys |-> <<>>]
    /\ histLast' = [k \in HistKeys |-> {}]
    /\ histCall' = [NoSelect EXCEPT !.n = histCall.n]
    /\ UNCHANGED histFile
    /\ UNCHANGED notHist

-----------------------------------------------------------------------------
(***************************************************************************)
(* MUSIC-VIDEO FETCH CACHE                                                 *)
(* _maybe_start_music_video_download is reached from                      *)
(* process_metadata_update, which runs on the watchdog observer thread     *)
(* (DjcapJsonHandler) and on the main thread (the initial call of main,    *)
(* made after observer.start()).  No lock guards the cache or the          *)
(* in-flight set, so the steps of the two threads interleave.              *)
(***************************************************************************)

\* threading.Thread(...).start() calls the model follows
MaxStarts == 2

\* the processor's clock runs up to MvMaxTime seconds
MvMaxTime == 12

\* retry cooldowns of lines 405 and 409
MV_RETRY_AFTER == 10
MV_EMPTY_RETRY_AFTER == 30

Threads == {"main", "observer"}

\* the tracks the calls of this state machine are made for
MvTracks == {t \in Tracks : t.artist \in {<<"X">>, <<"C">>, None}}

NoEntry == [status |-> "none", downloaded_at |-> 0]

IdleThread == [pc |-> "idle", key |-> <<>>]

\* lines 357-366: the call returns at once on a missing field
MvArgsOk(track_id, title, artist, bpm) ==
    Truthy(track_id) /\ Truthy(title) /\ Truthy(artist) /\ TruthyNum(bpm)

\* lines 384-410: should_retry of a cached entry
MvShouldRetry(entry, t) ==
    LET downloaded_at == entry.downloaded_at
        time_since_download == IF downloaded_at # 0 THEN t - downloaded_at ELSE 0
    IN  IF entry.status \in {"error", "empty"}
        THEN IF time_since_download > MV_RETRY_AFTER THEN TRUE
             ELSE IF entry.status = "empty" /\ time_since_download > 0
                  THEN time_since_download > MV_EMPTY_RETRY_AFTER
                  ELSE FALSE
        ELSE FALSE

\* lines 381-439: the cache check. proceed = the call goes on to the in-flight
\* check; cache = the cache after the pop of an entry that is retried
MvCacheCheck(cache, key, t) ==
    IF cache[key] # NoEntry
    THEN IF MvShouldRetry(cache[key], t)
         THEN [proceed |-> TRUE, cache |-> [cache EXCEPT ![key] = NoEntry]]
         ELSE [proceed |-> FALSE, cache |-> cache]
    ELSE [proceed |-> TRUE, cache |-> cache]

\* lines 441-450: the in-flight guard lets the call through
MvGuardPasses(inflight, key) == key \notin inflight

\* lines 506-512: the entry the worker stores ("full" mode); the download
\* returns a video or None, it catches its own exceptions
MvResultEntry(video, t) ==
    [status |-> IF video THEN "ready" ELSE "empty", downloaded_at |-> t]

\* lines 531-538: the entry the worker stores in its `except Exception`
MvErrorEntry(t) == [status |-> "error", downloaded_at |-> t]

\* what happens inside _download_music_video_full_mp4: yt-dlp leaves a file
\* (or the mp4 is on disk already), yt-dlp exits 0 and leaves no file, yt-dlp
\* exits non-zero, or a statement of the function raises
MvFetchOutcomes == {"downloaded", "no file", "nonzero", "exception"}

\* the outcomes in which the external fetch failed
MvFetchFailures == {"nonzero", "exception"}

\* _download_music_video_full_mp4 as its caller sees it: a video, None, or an
\* exception.  The body is one try whose `except Exception` returns None
DownloadMusicVideoFullMp4(outcome) ==
    IF outcome = "downloaded" THEN "video" ELSE "None"

\* lines 478-538: the try/except of _worker around the download
MvWorkerEntry(outcome, t) ==
    LET video == DownloadMusicVideoFullMp4(outcome) IN
    IF video = "raise" THEN MvErrorEntry(t) ELSE MvResultEntry(video = "video", t)

MvStart ==
    /\ mvCache = [k \in TrackKeys |-> NoEntry]
    /\ mvInflight = {}
    /\ mvWorkers = {}
    /\ mvThr = [t \in Threads |-> IdleThread]
    /\ mvStarted = 0
    /\ now = 1

MvTick ==
    /\ now < MvMaxTime
    /\ \E d \in {1, MV_RETRY_AFTER} :
        /\ now + d <= MvMaxTime
        /\ now' = now + d
    /\ UNCHANGED <<mvCache, mvInflight, mvWorkers, mvThr, mvStarted, notMv>>

\* entry of _maybe_start_music_video_download and its cache check
MvCallCheckCache(t) ==
    \E trk \in MvTracks :
        LET key == TrackId(trk.title, trk.artist)
            chk == MvCacheCheck(mvCache, key, now) IN
        /\ mvThr[t].pc = "idle"
        /\ mvStarted < MaxStarts
        /\ MvArgsOk(key, trk.title, trk.artist, trk.bpm)
        /\ mvCache' = chk.cache
        /\ mvThr' = [mvThr EXCEPT ![t] =
                        IF chk.proceed THEN [pc |-> "cache_checked", key |-> key]
                        ELSE IdleThread]
        /\ UNCHANGED <<mvInflight, mvWorkers, mvStarted, now, notMv>>

\* `if track_id in _music_video_inflight: return`
MvCheckInflight(t) ==
    /\ mvThr[t].pc = "cache_checked"
    /\ mvThr' = [mvThr EXCEPT ![t] =
                    IF MvGuardPasses(mvInflight, mvThr[t].key)
                    THEN [@ EXCEPT !.pc = "guard_passed"]
                    ELSE IdleThread]
    /\ UNCHANGED <<mvCache, mvInflight, mvWorkers, mvStarted, now, notMv>>

\* _music_video_inflight.add(track_id) ... threading.Thread(target=_worker).start()
MvAddAndStart(t) ==
    /\ mvThr[t].pc = "guard_passed"
    /\ mvInflight' = mvInflight \cup {mvThr[t].key}
    /\ mvWorkers' = mvWorkers \cup
            {[id |-> mvStarted + 1, key |-> mvThr[t].key, pc |-> "fetch",
              fetched |-> "none"]}
    /\ mvStarted' = mvStarted + 1
    /\ mvThr' = [mvThr EXCEPT ![t] = IdleThread]
    /\ UNCHANGED <<mvCache, now, notMv>>

\* _worker: the download returns and the result is stored in the cache
MvWorkerStore(w) ==
    \E outcome \in MvFetchOutcomes :
        /\ w.pc = "fetch"
        /\ mvCache' = [mvCache EXCEPT ![w.key] = MvWorkerEntry(outcome, now)]
        /\ mvWorkers' = (mvWorkers \ {w}) \cup
                {[w EXCEPT !.pc = "stored", !.fetched = outcome]}
        /\ UNCHANGED <<mvInflight, mvThr, mvStarted, now, notMv>>

\* a _worker that ends without the discard of its finally
MvWorkerFinallyKeeps(w) ==
    /\ w.pc = "stored"
    /\ mvWorkers' = mvWorkers \ {w}
    /\ UNCHANGED <<mvCache, mvInflight, mvThr, mvStarted, now, notMv>>

\* _worker: finally: _music_video_inflight.discard(track_id)
MvWorkerFinally(w) ==
    /\ w.pc = "stored"
    /\ mvInflight' = mvInflight \ {w.key}
    /\ mvWorkers' = mvWorkers \ {w}
    /\ UNCHANGED <<mvCache, mvThr, mvStarted, now, notMv>>

\* _worker from its download to its end, taken as one step: the result is
\* stored, then the key leaves the in-flight set
MvWorkerRun(w) ==
    \E outcome \in MvFetchOutcomes :
        /\ w.pc = "fetch"
        /\ mvCache' = [mvCache EXCEPT ![w.key] = MvWorkerEntry(outcome, now)]
        /\ mvInflight' = mvInflight \ {w.key}
        /\ mvWorkers' = mvWorkers \ {w}
        /\ UNCHANGED <<mvThr, mvStarted, now, notMv>>

\* the ids of the _worker threads: every thread that was inside the call when
\* the last start was allowed may still start one
MvWorkerIds == 1..(MaxStarts + Cardinality(Threads) - 1)

\* the _worker thread id is running; it has returned
MvRunning(id) == \E w \in mvWorkers : w.id = id
MvEnded(id) == id <= mvStarted /\ ~MvRunning(id)

\* the statuses a finished fetch leaves in _music_video_cache
MvTerminal == {"ready", "empty", "error"}

\* the workers whose fetch is running for a key
MvFetching(key) == {w \in mvWorkers : w.key = key /\ w.pc = "fetch"}

-----------------------------------------------------------------------------
(***************************************************************************)
(* THE SHARED DOCUMENT                                                     *)
(* djcap.py (producer) captures the decks and publishes the basic fields,  *)
(* djcap_processor.py (consumer) reads the document, reconciles both decks *)
(* and publishes the enriched document.  The two are separate processes:   *)
(* each reads the document, works on its private copy and publishes it.    *)
(***************************************************************************)

\* captures of the producer the model follows
MaxCaptures == 2

\* processed cycles of the consumer the model follows
MaxCycles == 3

\* the clock of the document state machine runs up to MaxTime seconds
MaxTime == 4

\* 'duration': 2.0 of a transition (line 2043)
TRANSITION_DURATION == 2

\* GIPHY_GIFS_PER_TRACK (line 767)
GIPHY_GIFS_PER_TRACK == 5

DeckNames == {"deck1", "deck2"}

\* a key that is missing from a dict (or holds None / {})
NoEnr == [absent |-> TRUE]
NoDoc == [missing |-> TRUE]
NoContent == [unset |-> TRUE]

\* a list-valued key that is missing from the deck dict
AbsentList == <<None>>

\* `if current_enriched:`
HasEnr(e) == e # NoEnr

\* no 'transition' key, or {'in_progress': False}: the code reads both the same
NoTrans == [in_progress |-> FALSE, start_time |-> 0]

\* the flat enrichment keys of a deck dict, all missing
EmptyTop ==
    [kw |-> AbsentList, gifs |-> AbsentList, pool |-> AbsentList,
     qp |-> AbsentList, started |-> 0, mv |-> "none"]

\* _extract_deck_metadata_regions + the active flag of extract_metadata.
\* kw = refined_keywords, qp = giphy_query_parts, pool = gif_pool,
\* started = track_started_at, mv = music_video_status; cur, nxt, trans =
\* current_enriched, next_enriched, transition; top = the flat keys
NewDeck(trk, active) ==
    [title |-> trk.title, artist |-> trk.artist, bpm |-> trk.bpm,
     active |-> active,
     cur |-> NoEnr, nxt |-> NoEnr, trans |-> NoTrans, top |-> EmptyTop]

\* _detect_active_deck_by_play_button, from the two play-button readings
DetectActiveDeckByPlayButton(deck1_active, deck2_active) ==
    IF deck1_active /\ ~deck2_active THEN "deck1"
    ELSE IF deck2_active /\ ~deck1_active THEN "deck2"
    ELSE IF deck1_active /\ deck2_active THEN "deck1"
    ELSE "deck1"

\* extract_metadata
ExtractMetadata(trk1, trk2, play1, play2) ==
    LET active_deck == DetectActiveDeckByPlayButton(play1, play2) IN
    [deck1 |-> NewDeck(trk1, active_deck = "deck1"),
     deck2 |-> NewDeck(trk2, active_deck = "deck2"),
     active_deck |-> active_deck]

\* save_metadata_to_json, lines 294-321: the merge of one deck
\* a merge that forgets the 'transition' key of the document it read
SaveMergeDeckDropsTransition(existing_deck, new_deck) ==
    LET kept == [new_deck EXCEPT !.cur = existing_deck.cur,
                                 !.nxt = existing_deck.nxt]
    IN  IF /\ existing_deck.active
           /\ new_deck.active
           /\ existing_deck.title = new_deck.title
           /\ existing_deck.artist = new_deck.artist
        THEN [kept EXCEPT !.top = existing_deck.top]
        ELSE kept

SaveMergeDeck(existing_deck, new_deck) ==
    LET kept == [new_deck EXCEPT !.cur = existing_deck.cur,
                                 !.nxt = existing_deck.nxt,
                                 !.trans = existing_deck.trans]
    IN  IF /\ existing_deck.active
           /\ new_deck.active
           /\ existing_deck.title = new_deck.title
           /\ existing_deck.artist = new_deck.artist
        THEN [kept EXCEPT !.top = existing_deck.top]
        ELSE kept

\* save_metadata_to_json, lines 272-325: the document it is about to write
SaveMerge(metadata, existing_data) ==
    [deck1 |-> IF existing_data = NoDoc THEN metadata.deck1
               ELSE SaveMergeDeck(existing_data.deck1, metadata.deck1),
     deck2 |-> IF existing_data = NoDoc THEN metadata.deck2
               ELSE SaveMergeDeck(existing_data.deck2, metadata.deck2),
     active_deck |-> metadata.active_deck]

\* _build_giphy_query_parts
BuildGiphyQueryParts(title, artist) ==
    IF ~Truthy(artist) THEN <<>> ELSE <<artist>>

\* s[:n]
Prefix(s, n) == SubSeq(s, 1, IF n <= Len(s) THEN n ELSE Len(s))

\* enrich_deck_data of an active deck: keywords from title and artist, Giphy
\* and Google disabled (gifs, gif_pool and giphy_query_parts are []), no
\* track_started_at, no music-video key
EnrichDeckData(deck) ==
    [title |-> deck.title, artist |-> deck.artist,
     kw |-> (IF Truthy(deck.title) THEN <<deck.title>> ELSE <<>>)
            \o (IF Truthy(deck.artist) THEN <<deck.artist>> ELSE <<>>),
     gifs |-> <<>>, pool |-> <<>>, qp |-> <<>>,
     started |-> 0, mv |-> "none"]

\* _enriched_gif_policy_stale
EnrichedGifPolicyStale(deck, enriched) ==
    LET desired_parts == BuildGiphyQueryParts(deck.title, deck.artist)
        qp_ok == Prefix(enriched.qp, Len(desired_parts)) = desired_parts
        gifs_ok == IF desired_parts # <<>>
                   THEN Len(enriched.gifs) <= GIPHY_GIFS_PER_TRACK ELSE TRUE
        pool_ok == IF desired_parts # <<>>
                   THEN Len(enriched.pool) >= Len(enriched.gifs) ELSE TRUE
    IN  ~qp_ok \/ ~gifs_ok \/ ~pool_ok

\* the calling thread's view of the music-video state while one cycle runs:
\* started = the keys a worker thread was started for in this cycle
MvCtx(cache, inflight) == [cache |-> cache, inflight |-> inflight, started |-> {}]

\* _maybe_start_music_video_download run by one thread without interruption
MaybeStartMusicVideoDownload(ctx, track_id, title, artist, bpm, t) ==
    IF ~MvArgsOk(track_id, title, artist, bpm) THEN ctx
    ELSE LET chk == MvCacheCheck(ctx.cache, track_id, t) IN
         IF ~chk.proceed THEN ctx
         ELSE IF ~MvGuardPasses(ctx.inflight, track_id)
              THEN [ctx EXCEPT !.cache = chk.cache]
              ELSE [cache |-> chk.cache,
                    inflight |-> ctx.inflight \cup {track_id},
                    started |-> ctx.started \cup {track_id}]

\* last_track_id of process_deck_transition
LastTrackId(current_enriched) ==
    IF HasEnr(current_enriched)
    THEN TrackId(current_enriched.title, current_enriched.artist)
    ELSE None

\* process_deck_transition, is_active False (lines 1855-1982)
InactiveDeckTransition(deck, ctx, t) ==
    LET current_enriched == deck.cur
        track_id == TrackId(deck.title, deck.artist)
        last_track_id == LastTrackId(current_enriched)
        same_track == /\ track_id = last_track_id
                      /\ Truthy(deck.title)
                      /\ Truthy(deck.artist)
        ctx1 == IF ~same_track /\ Truthy(deck.title) /\ Truthy(deck.artist)
                   /\ TruthyNum(deck.bpm)
                THEN MaybeStartMusicVideoDownload(ctx, track_id, deck.title,
                                                  deck.artist, deck.bpm, t)
                ELSE ctx
        preserved == IF same_track
                     THEN [kw |-> current_enriched.kw,
                           gifs |-> current_enriched.gifs,
                           pool |-> current_enriched.pool,
                           qp |-> current_enriched.qp,
                           started |-> current_enriched.started,
                           mv |-> current_enriched.mv]
                     ELSE EmptyTop
        mv == ctx1.cache[track_id]
        merged == [title |-> deck.title, artist |-> deck.artist,
                   bpm |-> deck.bpm, active |-> FALSE,
                   cur |-> NoEnr, nxt |-> NoEnr, trans |-> NoTrans,
                   top |-> IF mv # NoEntry
                           THEN [preserved EXCEPT !.mv = mv.status]
                           ELSE preserved]
    IN  [deck |-> merged, ctx |-> ctx1]

\* a variant of the test of line 2078 that ends the transition one tick late
TransitionCompleteLate(transition, t) ==
    /\ transition.in_progress
    /\ t - transition.start_time > TRANSITION_DURATION

\* lines 2076-2078: the transition of the deck has run its duration
TransitionComplete(transition, t) ==
    /\ transition.in_progress
    /\ t - transition.start_time >= TRANSITION_DURATION

\* lines 2047-2051: the same-track branch computes the enrichment again
NeedsNewEnriched(deck, current_enriched) ==
    \/ ~HasEnr(current_enriched)
    \/ current_enriched.kw = <<>>
    \/ EnrichedGifPolicyStale(deck, current_enriched)

\* process_deck_transition, is_active True (lines 1984-2135)
ActiveDeckTransition(deck, ctx, t) ==
    LET current_enriched == deck.cur
        track_id == TrackId(deck.title, deck.artist)
        last_track_id == LastTrackId(current_enriched)
        is_new_track == track_id # last_track_id
        ctx1 == MaybeStartMusicVideoDownload(ctx, track_id, deck.title,
                                             deck.artist, deck.bpm, t)
        kept == IF NeedsNewEnriched(deck, current_enriched)
                THEN EnrichDeckData(deck) ELSE current_enriched
        cur1 == IF is_new_track
                THEN [EnrichDeckData(deck) EXCEPT !.started = t]
                ELSE IF kept.started = 0 THEN [kept EXCEPT !.started = t]
                     ELSE kept
        complete == ~is_new_track /\ TransitionComplete(deck.trans, t)
        nxt1 == IF is_new_track
                THEN IF HasEnr(current_enriched) THEN current_enriched
                     ELSE deck.nxt
                ELSE IF complete THEN NoEnr ELSE deck.nxt
        trans1 == IF is_new_track
                  THEN [in_progress |-> TRUE, start_time |-> t]
                  ELSE IF complete THEN NoTrans ELSE deck.trans
        mv == ctx1.cache[track_id]
        cur2 == IF mv # NoEntry THEN [cur1 EXCEPT !.mv = mv.status] ELSE cur1
        top1 == [kw |-> cur2.kw, gifs |-> cur2.gifs, pool |-> cur2.pool,
                 qp |-> cur2.qp, started |-> deck.top.started,
                 mv |-> IF mv # NoEntry THEN mv.status ELSE deck.top.mv]
    IN  [deck |-> [deck EXCEPT !.cur = cur2, !.nxt = nxt1,
                               !.trans = trans1, !.top = top1],
         ctx |-> ctx1]

ProcessDeckTransition(deck, is_active, ctx, t) ==
    IF is_active THEN ActiveDeckTransition(deck, ctx, t)
    ELSE InactiveDeckTransition(deck, ctx, t)

\* a variant of lines 1706-1719 that names the other deck when only deck1
\* is active
CurrentActiveDeckSwapped(data) ==
    IF data.deck1.active /\ ~data.deck2.active THEN "deck2"
    ELSE IF data.deck2.active /\ ~data.deck1.active THEN "deck2"
    ELSE data.active_deck

\* lines 1706-1719
CurrentActiveDeck(data) ==
    IF data.deck1.active /\ ~data.deck2.active THEN "deck1"
    ELSE IF data.deck2.active /\ ~data.deck1.active THEN "deck2"
    ELSE IF data.deck1.active /\ data.deck2.active THEN data.active_deck
    ELSE data.active_deck

\* lines 1723-1742: the basic fields the change detection compares
BasicDeck(deck) ==
    [title |-> deck.title, artist |-> deck.artist, bpm |-> deck.bpm,
     active |-> deck.active]

BasicData(data) ==
    [deck1 |-> BasicDeck(data.deck1), deck2 |-> BasicDeck(data.deck2),
     active_deck |-> data.active_deck]

\* lines 1769-1825
NeedsEnrichment(data, current_active_deck) ==
    LET active_deck_data == data[current_active_deck]
        desired_parts == BuildGiphyQueryParts(active_deck_data.title,
                                              active_deck_data.artist)
        top == active_deck_data.top
        has_keywords == top.kw # AbsentList /\ top.kw # <<>>
        gifs_ok == top.gifs # AbsentList /\ Len(top.gifs) > 0
        qp_ok == IF desired_parts # <<>>
                 THEN top.qp # AbsentList /\ Prefix(top.qp, 2) = desired_parts
                 ELSE TRUE
    IN  IF active_deck_data.active
        THEN ~has_keywords \/ ~gifs_ok \/ ~qp_ok
        ELSE FALSE

\* str() of the three-valued _last_deck1_active / _last_deck2_active
PyBool(b) == IF b THEN "True" ELSE "False"

\* the module globals _last_* before the first processed cycle
NoLast ==
    [time |-> 0, content |-> NoContent, active_deck |-> "None",
     deck1_active |-> "None", deck2_active |-> "None"]

\* the change detection of lines 1743-1765
ContentChanged(data, lst) == BasicData(data) # lst.content

ActiveStatusChanged(data, lst) ==
    \/ PyBool(data.deck1.active) # lst.deck1_active
    \/ PyBool(data.deck2.active) # lst.deck2_active

ActiveDeckChanged(data, lst) == CurrentActiveDeck(data) # lst.active_deck

\* line 1828: the cycle returns without processing
SkipsCycle(data, lst) ==
    /\ ~ContentChanged(data, lst)
    /\ ~ActiveStatusChanged(data, lst)
    /\ ~ActiveDeckChanged(data, lst)
    /\ ~NeedsEnrichment(data, CurrentActiveDeck(data))

\* lines 2137-2151: both decks reconciled, deck1 first
ProcessBothDecks(data, ctx, t) ==
    LET r1 == ProcessDeckTransition(data.deck1, data.deck1.active, ctx, t)
        r2 == ProcessDeckTransition(data.deck2, data.deck2.active, r1.ctx, t)
    IN  [data |-> [data EXCEPT !.deck1 = r1.deck, !.deck2 = r2.deck,
                               !.active_deck = CurrentActiveDeck(data)],
         ctx |-> r2.ctx]

\* what the capture reads from each deck
DeckTracks(deck_name) ==
    IF deck_name = "deck1" THEN {t \in Tracks : t.artist # <<"X">>}
    ELSE {t \in Tracks : t.artist = <<"X">>}

\* DEBOUNCE_DELAY (line 1470) is 0.1 s: two runs at the same clock reading
\* are closer than that, runs at different readings are not
DebounceTicks == 1

\* the identity (title, artist) of a deck dict
Identity(deck) == <<deck.title, deck.artist>>

\* the deck dict carries enrichment: current_enriched or flat keywords
DeckEnriched(deck) ==
    \/ HasEnr(deck.cur)
    \/ (deck.top.kw # AbsentList /\ deck.top.kw # <<>>)

\* the track_started_at stamp of the enrichment a deck dict carries
EnrichedAt(deck) ==
    IF HasEnr(deck.cur) THEN deck.cur.started ELSE deck.top.started

\* no enrichment published by the consumer for the identity a deck shows
NoPub == [set |-> FALSE, id |-> <<None, None>>, at |-> 0]

\* history of the consumer's publishes, per deck: the enrichment it last
\* published for the identity the deck still shows
PubAfterConsumer(p, deck) ==
    IF DeckEnriched(deck)
    THEN [set |-> TRUE, id |-> Identity(deck), at |-> EnrichedAt(deck)]
    ELSE IF p.set /\ p.id = Identity(deck) THEN p ELSE NoPub

PubAfterProducer(p, deck) ==
    IF p.set /\ p.id = Identity(deck) THEN p ELSE NoPub

NoCycle ==
    [n |-> 0, at |-> 0, inp |-> NoDoc, out |-> NoDoc, started |-> {},
     unchanged |-> FALSE]

\* both processes at their start
ProcStart ==
    /\ pPc = "idle"
    /\ pMeta = NoDoc
    /\ pPlay = [deck1 |-> FALSE, deck2 |-> FALSE]
    /\ pN = 0
    /\ cPc = "idle"
    /\ cData = NoDoc
    /\ cTime = 0
    /\ last = NoLast
    /\ cyc = NoCycle
    /\ prevOut = NoDoc
    /\ pub = [d \in DeckNames |-> NoPub]

\* the DJ software's screen before the first capture: nothing plays
FirstScenes ==
    {[deck1 |-> [track |-> trk1, playing |-> FALSE],
      deck2 |-> [track |-> trk2, playing |-> FALSE]] :
        trk1 \in DeckTracks("deck1"), trk2 \in DeckTracks("deck2")}

\* both processes start, no document has been published yet
DocStart ==
    /\ scene \in FirstScenes
    /\ doc = NoDoc
    /\ ProcStart

\* the current_enriched an earlier cycle stored for a track
StoredEnrichment(trk) ==
    [EnrichDeckData(NewDeck(trk, TRUE)) EXCEPT !.started = 1]

\* what the key current_enriched or next_enriched of a deck can hold
EnrichmentsOf(deck_name) ==
    {NoEnr} \cup {StoredEnrichment(trk) : trk \in DeckTracks(deck_name)}

\* lines 2085-2096: the flat keys of a deck dict that carries an enrichment
FlatOf(enriched) ==
    [kw |-> enriched.kw, gifs |-> enriched.gifs, pool |-> enriched.pool,
     qp |-> enriched.qp, started |-> 0, mv |-> enriched.mv]

\* the deck dicts earlier publishes can have left for a deck: any track on
\* the deck, stored enrichments of any track, a transition that started at
\* time 1 or none, the flat keys in place or dropped by the producer
LeftDecks(deck_name, active) ==
    {[NewDeck(trk, active) EXCEPT
         !.cur = c, !.nxt = n, !.trans = tr,
         !.top = IF flat /\ HasEnr(c) THEN FlatOf(c) ELSE EmptyTop] :
        trk \in DeckTracks(deck_name),
        c \in EnrichmentsOf(deck_name),
        n \in EnrichmentsOf(deck_name),
        tr \in {NoTrans, [in_progress |-> TRUE, start_time |-> 1]},
        flat \in BOOLEAN}

\* the documents the processor can find when it starts: exactly one deck
\* marked active by the producer, deck1 as earlier publishes left it
LeftDocs ==
    {[deck1 |-> d1, deck2 |-> NewDeck(trk2, active_deck = "deck2"),
      active_deck |-> active_deck] :
        active_deck \in DeckNames,
        d1 \in UNION {LeftDecks("deck1", a) : a \in BOOLEAN},
        trk2 \in DeckTracks("deck2")}

\* a deck dict that holds the current_enriched of any track, the one it
\* shows or another one; the flat keys only for the track it shows
IdleDecks(shown, stored, active) ==
    {[NewDeck(trk, active) EXCEPT
         !.cur = c,
         !.top = IF /\ flat
                    /\ HasEnr(c)
                    /\ <<c.title, c.artist>> = <<trk.title, trk.artist>>
                 THEN FlatOf(c) ELSE EmptyTop] :
        trk \in shown,
        c \in {NoEnr} \cup {StoredEnrichment(e) : e \in stored},
        flat \in BOOLEAN}

IdleDocs ==
    UNION {{[deck1 |-> d1, deck2 |-> d2, active_deck |-> active_deck] :
               d1 \in IdleDecks(DeckTracks("deck1"), Tracks, active_deck = "deck1"),
               d2 \in IdleDecks(DeckTracks("deck2"), Tracks, active_deck = "deck2")} :
           active_deck \in DeckNames}

\* the tracks either deck can show when the DJ loads one track on both decks
BothDeckTracks == {t \in Tracks : t.bpm # 0}

\* documents in which both decks can show the same track
SameTrackDocs ==
    UNION {{[deck1 |-> d1, deck2 |-> d2, active_deck |-> active_deck] :
               d1 \in IdleDecks(BothDeckTracks, BothDeckTracks, active_deck = "deck1"),
               d2 \in IdleDecks(BothDeckTracks, BothDeckTracks, active_deck = "deck2")} :
           active_deck \in DeckNames}

\* the processor starts a cycle with a finished fetch, or none, in the cache
SameTrackStart ==
    /\ doc \in SameTrackDocs
    /\ scene = [d \in DeckNames |->
                   [track |-> [title |-> doc[d].title, artist |-> doc[d].artist,
                               bpm |-> doc[d].bpm],
                    playing |-> doc[d].active]]
    /\ ProcStart
    /\ \E k \in {TrackId(t.title, t.artist) : t \in BothDeckTracks} :
       \E e \in {NoEntry, MvErrorEntry(1), MvResultEntry(TRUE, 1)} :
           mvCache = [j \in TrackKeys |-> IF j = k THEN e ELSE NoEntry]
    /\ mvInflight = {}
    /\ mvWorkers = {}
    /\ mvThr = [t \in Threads |-> IdleThread]
    /\ mvStarted = 0
    /\ now = 1

\* the processor idles for longer than the retry delay of a failed fetch
SameTrackWait ==
    /\ now + MV_RETRY_AFTER + 1 <= MvMaxTime
    /\ now' = now + MV_RETRY_AFTER + 1
    /\ UNCHANGED <<mvCache, mvInflight, mvWorkers, mvThr, mvStarted, notMv>>

\* lines 2137-2151 with the two decks taken in the other order
ProcessBothDecksReversed(data, ctx, t) ==
    LET r2 == ProcessDeckTransition(data.deck2, data.deck2.active, ctx, t)
        r1 == ProcessDeckTransition(data.deck1, data.deck1.active, r2.ctx, t)
    IN  [data |-> [data EXCEPT !.deck1 = r1.deck, !.deck2 = r2.deck,
                               !.active_deck = CurrentActiveDeck(data)],
         ctx |-> r1.ctx]

\* the processor starts on a document whose decks may show another track
\* than the one their stored enrichment is for
IdleStart ==
    /\ doc \in IdleDocs
    /\ scene = [d \in DeckNames |->
                   [track |-> [title |-> doc[d].title, artist |-> doc[d].artist,
                               bpm |-> doc[d].bpm],
                    playing |-> doc[d].active]]
    /\ ProcStart

\* the processor starts on a document left by earlier runs
CycleStart ==
    /\ scene \in FirstScenes
    /\ doc \in {d \in LeftDocs : d.deck1.active = (d.active_deck = "deck1")}
    /\ ProcStart

\* time passes
DocTick ==
    /\ now < MaxTime
    /\ now' = now + 1
    /\ UNCHANGED <<mvCache, mvInflight, mvWorkers, mvThr, mvStarted, notMv>>

\* the screens the DJ can reach with at most one operation: loading another
\* track on a deck, starting or stopping a deck
SceneAfterDj(sc) ==
    {sc}
    \cup {[sc EXCEPT ![d].playing = ~sc[d].playing] : d \in DeckNames}
    \cup UNION {{[sc EXCEPT ![d].track = trk] : trk \in DeckTracks(d) \ {sc[d].track}}
               : d \in DeckNames}

\* djcap.py main loop: capture of the screen, extract_metadata, then
\* save_metadata_to_json up to the merge with the document it read
\* (lines 272-325)
ProducerCapture ==
    /\ pPc = "idle"
    /\ pN < MaxCaptures
    /\ \E sc \in SceneAfterDj(scene) :
        /\ scene' = sc
        /\ pMeta' = SaveMerge(ExtractMetadata(sc.deck1.track, sc.deck2.track,
                                              sc.deck1.playing, sc.deck2.playing),
                              doc)
        /\ pPlay' = [deck1 |-> sc.deck1.playing, deck2 |-> sc.deck2.playing]
    /\ pPc' = "merged"
    /\ pN' = pN + 1
    /\ UNCHANGED <<doc, cPc, cData, cTime, last, cyc, prevOut, pub, notDoc>>

\* save_metadata_to_json, lines 327-333: write and os.replace
ProducerWrite ==
    /\ pPc = "merged"
    /\ doc' = pMeta
    /\ pPc' = "idle"
    /\ pMeta' = NoDoc
    /\ pPlay' = [deck1 |-> FALSE, deck2 |-> FALSE]
    /\ pub' = [d \in DeckNames |-> PubAfterProducer(pub[d], pMeta[d])]
    /\ UNCHANGED <<scene, pN, cPc, cData, cTime, last, cyc, prevOut, notDoc>>

\* process_metadata_update, lines 1696-1704: debounce and read
ConsumerRead ==
    /\ cPc = "idle"
    /\ cyc.n < MaxCycles
    /\ ~(now - last.time < DebounceTicks)
    /\ doc # NoDoc
    /\ cData' = doc
    /\ cTime' = now
    /\ cPc' = "read"
    /\ UNCHANGED <<scene, doc, pPc, pMeta, pPlay, pN, last, cyc, prevOut, pub, notDoc>>

\* smallest worker id not in use
FreshId(workers) ==
    CHOOSE i \in 1..(Cardinality(workers) + 1) :
        /\ \A w \in workers : w.id # i
        /\ \A j \in 1..(i - 1) : \E w \in workers : w.id = j

\* threading.Thread(target=_worker).start() for every key of a set
RECURSIVE MvSpawnAll(_, _)
MvSpawnAll(workers, keys) ==
    IF keys = {} THEN workers
    ELSE LET k == CHOOSE x \in keys : TRUE IN
         MvSpawnAll(workers \cup {[id |-> FreshId(workers), key |-> k, pc |-> "fetch",
                                     fetched |-> "none"]},
                    keys \ {k})

\* process_metadata_update, lines 1706-2173: change detection, both decks
\* reconciled, the document published
ConsumerProcess ==
    /\ cPc = "read"
    /\ cPc' = "idle"
    /\ cData' = NoDoc
    /\ cTime' = 0
    /\ IF SkipsCycle(cData, last)
       THEN UNCHANGED <<doc, last, cyc, prevOut, pub, mvCache, mvInflight, mvWorkers>>
       ELSE LET r == ProcessBothDecks(cData, MvCtx(mvCache, mvInflight), now) IN
            /\ doc' = r.data
            /\ last' = [time |-> cTime,
                        content |-> BasicData(cData),
                        active_deck |-> CurrentActiveDeck(cData),
                        deck1_active |-> PyBool(cData.deck1.active),
                        deck2_active |-> PyBool(cData.deck2.active)]
            /\ mvCache' = r.ctx.cache
            /\ mvInflight' = r.ctx.inflight
            /\ mvWorkers' = MvSpawnAll(mvWorkers, r.ctx.started)
            /\ cyc' = [n |-> cyc.n + 1, at |-> now, inp |-> cData,
                       out |-> r.data, started |-> r.ctx.started,
                       unchanged |-> /\ ~ContentChanged(cData, last)
                                     /\ ~ActiveStatusChanged(cData, last)
                                     /\ ~ActiveDeckChanged(cData, last)]
            /\ prevOut' = cyc.out
            /\ pub' = [d \in DeckNames |-> PubAfterConsumer(pub[d], r.data[d])]
    /\ UNCHANGED <<scene, pPc, pMeta, pPlay, pN, mvThr, mvStarted, now, rateVars, fsVars,
                   histVars, readVars, debounceVars, publishVars, rateConcVars, stampVars, sweepVars, flatVars, quiesceVars, mediaVars>>

\* no publish has failed
NoFailure == [failed |-> FALSE, data |-> NoDoc, n |-> 0]

PublishStart == unpublished = NoFailure

\* process_metadata_update when its publish raises (open of the temp file,
\* json.dump or rename, lines 2154-2157): the cycle ran up to the publish, the
\* `except Exception` of line 2172 logs, the document stays as it was
ConsumerPublishFails ==
    /\ cPc = "read"
    /\ ~SkipsCycle(cData, last)
    /\ cPc' = "idle"
    /\ cData' = NoDoc
    /\ cTime' = 0
    /\ LET r == ProcessBothDecks(cData, MvCtx(mvCache, mvInflight), now) IN
        /\ last' = [time |-> cTime,
                    content |-> BasicData(cData),
                    active_deck |-> CurrentActiveDeck(cData),
                    deck1_active |-> PyBool(cData.deck1.active),
                    deck2_active |-> PyBool(cData.deck2.active)]
        /\ mvCache' = r.ctx.cache
        /\ mvInflight' = r.ctx.inflight
        /\ mvWorkers' = MvSpawnAll(mvWorkers, r.ctx.started)
    /\ cyc' = [cyc EXCEPT !.n = @ + 1]
    /\ unpublished' = [failed |-> TRUE, data |-> cData, n |-> cyc.n + 1]
    /\ UNCHANGED <<scene, doc, pPc, pMeta, pPlay, pN, prevOut, pub, mvThr, mvStarted, now,
                   rateVars, fsVars, histVars, readVars, debounceVars, rateConcVars, stampVars, sweepVars, flatVars, quiesceVars, mediaVars>>

\* the documents djcap.py publishes on its first capture, for every reading
\* of the two play buttons
FirstDocs ==
    {ExtractMetadata(trk1, trk2, play1, play2) :
        trk1 \in DeckTracks("deck1"), trk2 \in DeckTracks("deck2"),
        play1 \in BOOLEAN, play2 \in BOOLEAN}

\* output_cleanup.py 166-173: the document cleanup_djcap_json puts in place
\* of a djcap_output.json it cannot parse; no deck is active in it
MinimalDoc ==
    [deck1 |-> NewDeck(NoTrack, FALSE), deck2 |-> NewDeck(NoTrack, FALSE),
     active_deck |-> "deck1"]

\* the processor is started on a document djcap.py has just published, or on
\* the one its periodic cleanup has put in place
PublishedStart ==
    /\ scene \in FirstScenes
    /\ doc \in FirstDocs \cup {MinimalDoc}
    /\ ProcStart

-----------------------------------------------------------------------------
(***************************************************************************)
(* READING THE DOCUMENT                                                    *)
(* process_metadata_update reads the document with read_djcap_json while   *)
(* djcap.py and the processor's other thread publish through the staging   *)
(* file.  One attempt is two steps: the os.path.exists test of the staging *)
(* path, then open and read of the canonical path.                         *)
(***************************************************************************)

\* read_djcap_json(file_path, max_retries=5, retry_delay=0.1)
READ_MAX_RETRIES == 5

IdleReader == [pc |-> "idle", attempt |-> 0, out |-> "unset", why |-> "unset", made |-> 0]

\* the canonical path does not exist yet: the processor started first
FsStartNoFile ==
    /\ fsInode = [i \in Inodes |-> Free]
    /\ fsTmp = 0
    /\ fsCanon = 0
    /\ fsW = [p \in Procs |-> IdleWriter]
    /\ fsPub = [p \in Procs |-> 0]

ReadStart ==
    /\ rd = IdleReader
    /\ rdSeen = NoLast

\* content of the written length whose chunks come from different publishes
FsMixed(content) ==
    /\ Len(content) = DocChunks
    /\ \A i \in 1..DocChunks : content[i] # Hole
    /\ ~FsComplete(content)

\* what one open+read+json.loads of the canonical path yields
ReadOutcomes(canon, inode) ==
    IF canon = 0 THEN {"FileNotFoundError"}
    ELSE IF inode[canon] = <<>> THEN {"empty"}
    ELSE IF FsComplete(inode[canon]) THEN {"data"}
    ELSE IF FsMixed(inode[canon]) THEN {"data", "JSONDecodeError"}
    ELSE {"JSONDecodeError"}

\* the loop of read_djcap_json moves to its next attempt, or runs out
ReadNextAttempt(r, why) ==
    IF r.attempt + 1 < READ_MAX_RETRIES
    THEN [r EXCEPT !.pc = "exists", !.attempt = @ + 1, !.made = @ + 1]
    ELSE [r EXCEPT !.pc = "returned", !.out = "None", !.why = why, !.made = @ + 1]

\* lines 1693-1699: the debounce test passes and read_djcap_json is entered
ReadCall ==
    /\ rd.pc = "idle"
    /\ rd.out = "unset"
    /\ ~(now - last.time < DebounceTicks)
    /\ rd' = [IdleReader EXCEPT !.pc = "exists"]
    /\ rdSeen' = last
    /\ UNCHANGED notRead

\* lines 1510-1513: the staging file exists, sleep and continue
ReadExists ==
    /\ rd.pc = "exists"
    /\ rd' = IF fsTmp # 0 THEN ReadNextAttempt(rd, "staging")
             ELSE [rd EXCEPT !.pc = "open"]
    /\ UNCHANGED <<rdSeen, notRead>>

\* lines 1515-1541: open, read, strip, json.loads and the except clauses
ReadOpen ==
    /\ rd.pc = "open"
    /\ \E outcome \in ReadOutcomes(fsCanon, fsInode) :
        rd' = CASE outcome = "data" ->
                     [rd EXCEPT !.pc = "returned", !.out = "data", !.why = "data",
                                !.made = @ + 1]
                [] outcome = "JSONDecodeError" -> ReadNextAttempt(rd, outcome)
                [] OTHER ->
                     [rd EXCEPT !.pc = "returned", !.out = "None", !.why = outcome,
                                !.made = @ + 1]
    /\ UNCHANGED <<rdSeen, notRead>>

\* lines 1700-1704: 'if not data: return' ends the call ("idle"); with data
\* the cycle goes on to its change detection ("cycle")
ReadReturn ==
    /\ rd.pc = "returned"
    /\ rd' = [rd EXCEPT !.pc = IF rd.out = "None" THEN "idle" ELSE "cycle"]
    /\ UNCHANGED <<rdSeen, notRead>>

\* the publishers of both processes, MaxPublishes publish calls in all
ReadPublish(p) ==
    \/ fsPub["djcap"] + fsPub["processor"] < MaxPublishes /\ FsOpen(p)
    \/ FsWrite(p)
    \/ FsClose(p)
    \/ FsReplace(p)
    \/ FsRemoveTmp(p)

-----------------------------------------------------------------------------
(***************************************************************************)
(* TRIGGERS AND DEBOUNCE                                                   *)
(* process_metadata_update is called from three places: the initial call   *)
(* of main (made after observer.start()), the watchdog handler on the      *)
(* observer thread (after a time.sleep(0.1)), and, without watchdog, the    *)
(* polling loop of main (after a time.sleep(0.1)).  The debounce test       *)
(* (lines 1694-1696) and the assignment of _last_processed_time (line 1833)  *)
(* are apart, with the read and the change detection between them, and no   *)
(* lock is held.  One clock tick is DEBOUNCE_DELAY.                         *)
(***************************************************************************)

\* file events and polls one thread handles
MaxTriggers == 2

IdleTrigger == [pc |-> "idle", wake |-> 0, current_time |-> 0, n |-> 0]

DebounceStart ==
    /\ dbMode = "watchdog"
    /\ dbThr = [t \in Threads |->
                    IF t = "main" THEN [IdleTrigger EXCEPT !.pc = "initial"] ELSE IdleTrigger]
    /\ dbLast = 0
    /\ dbPassed = <<>>

\* the thread a trigger source runs on: events on the observer thread when
\* watchdog is available, polls on the main thread otherwise
TriggerThread(mode) == IF mode = "watchdog" THEN "observer" ELSE "main"

\* DjcapJsonHandler._maybe_process / the polling branch of main: a change of
\* the file is seen, time.sleep(0.1) before process_metadata_update
DebounceTrigger(t) ==
    /\ t = TriggerThread(dbMode)
    /\ dbThr[t].pc = "idle"
    /\ dbThr[t].n < MaxTriggers
    /\ dbThr' = [dbThr EXCEPT ![t].pc = "sleeping", ![t].wake = now + DebounceTicks,
                              ![t].n = @ + 1]
    /\ UNCHANGED <<dbMode, dbLast, dbPassed, notDebounce>>

\* lines 1694-1696: current_time = time.time() and the debounce test
DebounceCheck(t) ==
    /\ \/ dbThr[t].pc = "initial"
       \/ dbThr[t].pc = "sleeping" /\ now >= dbThr[t].wake
    /\ IF now - dbLast < DebounceTicks
       THEN /\ dbThr' = [dbThr EXCEPT ![t].pc = "idle"]
            /\ UNCHANGED dbPassed
       ELSE /\ dbThr' = [dbThr EXCEPT ![t].pc = "passed", ![t].current_time = now]
            /\ dbPassed' = Append(dbPassed, now)
    /\ UNCHANGED <<dbMode, dbLast, notDebounce>>

\* lines 1698-1837: the read returns no data (return), the change detector
\* skips the cycle (return), or the cycle is processed and line 1833 stores
\* current_time
DebounceProceed(t) ==
    /\ dbThr[t].pc = "passed"
    /\ \E outcome \in {"no data", "skipped", "processed"} :
        dbLast' = IF outcome = "processed" THEN dbThr[t].current_time ELSE dbLast
    /\ dbThr' = [dbThr EXCEPT ![t].pc = "idle"]
    /\ UNCHANGED <<dbMode, dbPassed, notDebounce>>

-----------------------------------------------------------------------------
(* THE PUBLISH STAMP                                                       *)
(* 'timestamp' and 'last_updated' are keys of the document.  djcap.py sets *)
(* both from the clock before it writes (lines 323-325);                   *)
(* process_metadata_update dumps the dict read_djcap_json returned, with   *)
(* the two keys as they were read (lines 1702, 2153-2157).  The two        *)
(* processes run on their own schedule.                                    *)

notStamp == <<rateVars, fsVars, mvVars, docVars, histVars, readVars, debounceVars, publishVars, rateConcVars, sweepVars, flatVars, quiesceVars, mediaVars>>

MaxStampTime == 4

MaxStampPublishes == 4

\* no document on disk yet, no dict read yet
NoStamp == -1

StampStart ==
    /\ stampFile = NoStamp
    /\ stampData = NoStamp
    /\ stampNow = 0
    /\ stampPc = "idle"
    /\ stampCount = 0

StampTick ==
    /\ stampNow < MaxStampTime
    /\ stampNow' = stampNow + 1
    /\ UNCHANGED <<stampFile, stampData, stampPc, stampCount, notStamp>>

\* djcap.py lines 324-325: metadata["last_updated"] = time.time()
SaveMetadataStamp(read_stamp, time) == time

\* save_metadata_to_json, lines 323-332
StampProducerPublish ==
    /\ stampCount < MaxStampPublishes
    /\ stampFile' = SaveMetadataStamp(stampFile, stampNow)
    /\ stampCount' = stampCount + 1
    /\ UNCHANGED <<stampData, stampNow, stampPc, notStamp>>

\* process_metadata_update, lines 1702-1704: data = read_djcap_json(...);
\* without a document the cycle returns
StampConsumerRead ==
    /\ stampPc = "idle"
    /\ stampData' = stampFile
    /\ stampPc' = IF stampFile = NoStamp THEN "idle" ELSE "read"
    /\ UNCHANGED <<stampFile, stampNow, stampCount, notStamp>>

\* process_metadata_update, lines 2153-2157: json.dump(data) and rename
StampConsumerPublish ==
    /\ stampPc = "read"
    /\ stampCount < MaxStampPublishes
    /\ stampFile' = stampData
    /\ stampCount' = stampCount + 1
    /\ stampPc' = "idle"
    /\ UNCHANGED <<stampData, stampNow, notStamp>>

-----------------------------------------------------------------------------
(* THE RETENTION SWEEP                                                     *)
(* One deck that keeps showing one track (title, artist and bpm set).  The *)
(* deck dict is followed through its keys 'active', 'current_enriched'     *)
(* (present or not, with its music_video_downloaded_at) and the flat       *)
(* music_video_downloaded_at; 0 is a missing or zero value.  The worker    *)
(* stores the media file and the cache entry; every processed cycle ends   *)
(* with _cleanup_old_music_videos on the dict it has just written.         *)

notSweep == <<rateVars, fsVars, mvVars, docVars, histVars, readVars, debounceVars, publishVars, rateConcVars, stampVars, flatVars, quiesceVars, mediaVars>>

\* the clock of the sweep advances in steps of SweepTickSeconds seconds
SweepTickSeconds == 30

MaxSweepTime == 180

\* processed cycles the sweep model follows
MaxSweepCycles == 4

\* line 1476
MUSIC_VIDEO_CLEANUP_THRESHOLD == 60

\* the deck is playing, nothing has been enriched or fetched yet
SweepStart ==
    /\ swDeck = [active |-> TRUE, has_cur |-> FALSE, cur_at |-> 0, top_at |-> 0]
    /\ swFile = FALSE
    /\ swCache = [status |-> "none", downloaded_at |-> 0]
    /\ swNow = SweepTickSeconds
    /\ swStopped = 0
    /\ swCycles = 0

SweepTick ==
    /\ swNow + SweepTickSeconds <= MaxSweepTime
    /\ swNow' = swNow + SweepTickSeconds
    /\ UNCHANGED <<swDeck, swFile, swCache, swStopped, swCycles, notSweep>>

\* the worker of _maybe_start_music_video_download stores the video and the
\* cache entry (lines 452-561)
SweepWorkerStores ==
    /\ swCache.status = "downloading"
    /\ swFile' = TRUE
    /\ swCache' = [status |-> "ready", downloaded_at |-> swNow]
    /\ UNCHANGED <<swDeck, swNow, swStopped, swCycles, notSweep>>

\* djcap.py publishes a capture with the deck started or stopped:
\* save_metadata_to_json keeps current_enriched and keeps the flat keys only
\* while the deck stays active (lines 294-321)
SweepProducerPublish ==
    \E active \in BOOLEAN :
        /\ active # swDeck.active
        /\ swDeck' = [swDeck EXCEPT !.active = active, !.top_at = 0]
        /\ swStopped' = IF active THEN 0 ELSE swNow
        /\ UNCHANGED <<swFile, swCache, swNow, swCycles, notSweep>>

\* the cache entry after _maybe_start_music_video_download (lines 356-452)
SweepMaybeStart(cache) ==
    IF cache.status = "none"
    THEN [status |-> "downloading", downloaded_at |-> 0]
    ELSE cache

\* process_deck_transition on the deck dict (lines 1855-2135)
SweepDeckTransition(deck, cache) ==
    IF ~deck.active
    THEN \* lines 1856-1982: {**base, **preserved}, without current_enriched
         LET same_track == deck.has_cur
             preserved_at == IF same_track THEN deck.cur_at ELSE 0
         IN  [active |-> FALSE, has_cur |-> FALSE, cur_at |-> 0,
              top_at |-> IF cache.status # "none" THEN cache.downloaded_at
                         ELSE preserved_at]
    ELSE \* lines 1984-2135: current_enriched kept or built, the cache entry
         \* applied to it and to the flat keys
         LET at == IF cache.status # "none" THEN cache.downloaded_at
                   ELSE deck.cur_at
         IN  [active |-> TRUE, has_cur |-> TRUE, cur_at |-> at, top_at |-> at]

\* _cleanup_old_music_videos (lines 1386-1443): the media file after the sweep
CleanupOldMusicVideos(deck, file, t) ==
    LET downloaded_at == IF deck.has_cur THEN deck.cur_at ELSE 0
    IN  IF /\ downloaded_at # 0
           /\ ~deck.active
           /\ t - downloaded_at > MUSIC_VIDEO_CLEANUP_THRESHOLD
        THEN FALSE
        ELSE file

\* a processed cycle of process_metadata_update (lines 1849-2165)
SweepConsumerCycle ==
    LET started == IF ~swDeck.active /\ swDeck.has_cur
                   THEN swCache
                   ELSE SweepMaybeStart(swCache)
        written == SweepDeckTransition(swDeck, started)
    IN  /\ swCycles < MaxSweepCycles
        /\ swCycles' = swCycles + 1
        /\ swCache' = started
        /\ swDeck' = written
        /\ swFile' = CleanupOldMusicVideos(written, swFile, swNow)
        /\ UNCHANGED <<swNow, swStopped, notSweep>>

-----------------------------------------------------------------------------
(* NESTING OF THE ENRICHMENT PAYLOADS                                      *)
(* A deck dict is followed through the track it shows, its active flag and *)
(* its keys current_enriched, next_enriched and transition.  A payload is  *)
(* the track it was computed for and its depth: 0 when it holds none of    *)
(* the keys current_enriched, next_enriched, transition, else one more     *)
(* than the deepest payload it holds.                                      *)

notFlat == <<rateVars, fsVars, mvVars, docVars, histVars, readVars, debounceVars, publishVars, rateConcVars, stampVars, sweepVars, quiesceVars, mediaVars>>

\* the tracks a deck can show are 1..MaxFlatTrack
MaxFlatTrack == 2

\* a missing key, or a key that holds None
NoPayload == [present |-> FALSE, track |-> 0, depth |-> 0]

\* what extract_metadata yields for a deck
FlatNewDeck(track, active) ==
    [track |-> track, active |-> active, cur |-> NoPayload, nxt |-> NoPayload,
     trans |-> "absent"]

\* the first document djcap.py publishes: deck1 marked active
FlatStart ==
    flDoc = [deck1 |-> FlatNewDeck(1, TRUE), deck2 |-> FlatNewDeck(1, FALSE)]

\* an enrich_deck_data that starts from a copy of the deck dict
FlatEnrichCopiesDeck(deck) ==
    [present |-> TRUE, track |-> deck.track,
     depth |-> IF deck.cur.present \/ deck.nxt.present \/ deck.trans # "absent"
               THEN 1 + Max(deck.cur.depth, deck.nxt.depth)
               ELSE 0]

\* enrich_deck_data, lines 1649-1668: a fresh dict of the listed keys
FlatEnrichDeckData(deck) ==
    [present |-> TRUE, track |-> deck.track, depth |-> 0]

\* process_deck_transition, is_active True (lines 1984-2083); stale = the
\* same-track test of lines 2047-2051, elapsed = the transition has run its
\* duration
FlatActiveTransition(deck, stale, elapsed) ==
    IF ~deck.cur.present \/ deck.cur.track # deck.track
    THEN LET moved == [deck EXCEPT !.nxt = IF deck.cur.present THEN deck.cur ELSE @]
         IN  [moved EXCEPT !.cur = FlatEnrichDeckData(moved),
                           !.trans = "in_progress"]
    ELSE LET kept == IF stale
                     THEN [deck EXCEPT !.cur = FlatEnrichDeckData(deck)]
                     ELSE deck
         IN  IF kept.trans = "in_progress" /\ elapsed
             THEN [kept EXCEPT !.nxt = NoPayload, !.trans = "done"]
             ELSE kept

\* process_deck_transition, is_active False (lines 1856-1982): base and the
\* preserved flat keys
FlatInactiveTransition(deck) ==
    [deck EXCEPT !.cur = NoPayload, !.nxt = NoPayload, !.trans = "absent"]

\* save_metadata_to_json, lines 294-306: the three keys carried over
FlatSaveMergeDeck(existing_deck, new_deck) ==
    [new_deck EXCEPT !.cur = existing_deck.cur, !.nxt = existing_deck.nxt,
                     !.trans = existing_deck.trans]

\* sanitize_deck_data, lines 76-124: current_enriched is folded into the top
\* level, next_enriched is rebuilt from four of its keys
FlatSanitizeDeckData(deck) ==
    [deck EXCEPT !.cur = NoPayload,
                 !.nxt = IF deck.nxt.present
                         THEN [present |-> TRUE, track |-> deck.nxt.track, depth |-> 0]
                         ELSE NoPayload]

\* djcap.py publishes a capture: exactly one deck is marked active
FlatProducerPublish ==
    \E t1 \in 1..MaxFlatTrack, t2 \in 1..MaxFlatTrack, active_deck \in DeckNames :
        /\ flDoc' = [deck1 |-> FlatSaveMergeDeck(flDoc.deck1,
                                   FlatNewDeck(t1, active_deck = "deck1")),
                     deck2 |-> FlatSaveMergeDeck(flDoc.deck2,
                                   FlatNewDeck(t2, active_deck = "deck2"))]
        /\ UNCHANGED notFlat

\* a processed cycle of process_metadata_update (lines 2137-2157)
FlatConsumerCycle ==
    \E stale \in BOOLEAN, elapsed \in BOOLEAN :
        /\ flDoc' = [d \in DeckNames |->
                        IF flDoc[d].active
                        THEN FlatActiveTransition(flDoc[d], stale, elapsed)
                        ELSE FlatInactiveTransition(flDoc[d])]
        /\ UNCHANGED notFlat

\* cleanup_djcap_json, lines 137-162
FlatCleanup ==
    /\ flDoc' = [d \in DeckNames |-> FlatSanitizeDeckData(flDoc[d])]
    /\ UNCHANGED notFlat

-----------------------------------------------------------------------------
(* Specifications *)

SpecRateInit == RateStart /\ FsStart /\ MvStart /\ DocStart /\ HistStart /\ ReadStart /\ DebounceStart /\ PublishStart /\ RateConcStart /\ StampStart /\ SweepStart /\ FlatStart /\ QuiesceStart /\ MediaStart

SpecRateNext == RateTick \/ GiphyCanRequest \/ GiphyRecordRequest \/ RateRestart

SpecRate == SpecRateInit /\ [][SpecRateNext]_vars

SpecRateConcInit == SpecRateInit

\* two threads, each checking admission and then recording
SpecRateConcNext ==
    \/ RateTick
    \/ \E t \in DOMAIN rateThr : RateConcCheck(t) \/ RateConcAppend(t) \/ RateConcWrite(t)

SpecRateConc == SpecRateConcInit /\ [][SpecRateConcNext]_vars

SpecFsInit == FsStart /\ RateStart /\ MvStart /\ DocStart /\ HistStart /\ ReadStart /\ DebounceStart /\ PublishStart /\ RateConcStart /\ StampStart /\ SweepStart /\ FlatStart /\ QuiesceStart /\ MediaStart

SpecFsNext ==
    \E p \in Procs :
        FsOpen(p) \/ FsWrite(p) \/ FsClose(p) \/ FsReplace(p) \/ FsRemoveTmp(p)

SpecFs == SpecFsInit /\ [][SpecFsNext]_vars

SpecMvInit == MvStart /\ RateStart /\ FsStart /\ DocStart /\ HistStart /\ ReadStart /\ DebounceStart /\ PublishStart /\ RateConcStart /\ StampStart /\ SweepStart /\ FlatStart /\ QuiesceStart /\ MediaStart

SpecMvNext ==
    \/ MvTick
    \/ \E t \in Threads : MvCallCheckCache(t) \/ MvCheckInflight(t) \/ MvAddAndStart(t)
    \/ \E w \in mvWorkers : MvWorkerStore(w) \/ MvWorkerFinally(w)

SpecMv == SpecMvInit /\ [][SpecMvNext]_vars

\* a started _worker thread keeps running: its download returns (or raises)
\* and its statements are executed
MvWorkerFairness ==
    \A id \in MvWorkerIds :
        WF_vars(\E w \in mvWorkers :
                    w.id = id /\ (MvWorkerStore(w) \/ MvWorkerFinally(w)))

SpecMvFair == SpecMvInit /\ [][SpecMvNext]_vars /\ MvWorkerFairness

SpecCycleInit == CycleStart /\ MvStart /\ RateStart /\ FsStart /\ HistStart /\ ReadStart /\ DebounceStart /\ PublishStart /\ RateConcStart /\ StampStart /\ SweepStart /\ FlatStart /\ QuiesceStart /\ MediaStart

\* the processor alone: cycles on the document, no producer
SpecCycleNext == DocTick \/ ConsumerRead \/ ConsumerProcess

SpecCycle == SpecCycleInit /\ [][SpecCycleNext]_vars

\* djcap.py alone: captures merged into a document the processor left
SpecProducerInit == SpecCycleInit

SpecProducerNext == ProducerCapture \/ ProducerWrite

SpecProducer == SpecProducerInit /\ [][SpecProducerNext]_vars

\* the consumer's cycles and its fetch workers on a document whose decks may
\* have changed track while idle
SpecIdleInit == IdleStart /\ MvStart /\ RateStart /\ FsStart /\ HistStart /\ ReadStart /\ DebounceStart /\ PublishStart /\ RateConcStart /\ StampStart /\ SweepStart /\ FlatStart /\ QuiesceStart /\ MediaStart

SpecIdleNext ==
    \/ DocTick
    \/ ConsumerRead
    \/ ConsumerProcess
    \/ \E w \in mvWorkers : MvWorkerRun(w)

SpecIdle == SpecIdleInit /\ [][SpecIdleNext]_vars

\* the consumer's cycles on documents whose decks can show the same track,
\* over the retry delay of the fetch cache
SpecSameTrackInit == SameTrackStart /\ RateStart /\ FsStart /\ HistStart /\ ReadStart /\ DebounceStart /\ PublishStart /\ RateConcStart /\ StampStart /\ SweepStart /\ FlatStart /\ QuiesceStart /\ MediaStart

SpecSameTrackNext == SameTrackWait \/ ConsumerRead \/ ConsumerProcess

SpecSameTrack == SpecSameTrackInit /\ [][SpecSameTrackNext]_vars

SpecFlatInit == SpecRateInit

SpecFlatNext == FlatProducerPublish \/ FlatConsumerCycle \/ FlatCleanup

SpecFlat == SpecFlatInit /\ [][SpecFlatNext]_vars

SpecStampInit == SpecRateInit

SpecStampNext ==
    StampTick \/ StampProducerPublish \/ StampConsumerRead \/ StampConsumerPublish

SpecStamp == SpecStampInit /\ [][SpecStampNext]_vars

SpecSweepInit == SpecRateInit

SpecSweepNext ==
    SweepTick \/ SweepWorkerStores \/ SweepProducerPublish \/ SweepConsumerCycle

SpecSweep == SpecSweepInit /\ [][SpecSweepNext]_vars

SpecPublishInit ==
    PublishedStart /\ PublishStart /\ MvStart /\ RateStart /\ FsStart /\ HistStart
        /\ ReadStart /\ DebounceStart /\ scene.deck1.track.artist = None /\ RateConcStart /\ StampStart /\ SweepStart /\ FlatStart /\ QuiesceStart /\ MediaStart

\* the processor alone on a document whose publish may fail
SpecPublishNext == DocTick \/ ConsumerRead \/ ConsumerProcess \/ ConsumerPublishFails

SpecPublish == SpecPublishInit /\ [][SpecPublishNext]_vars

SpecHistInit ==
    HistBeforeSelect /\ RateStart /\ FsStart /\ MvStart /\ DocStart /\ ReadStart
        /\ DebounceStart /\ PublishStart
        /\ scene.deck1.track.artist = None /\ RateConcStart /\ StampStart /\ SweepStart /\ FlatStart /\ QuiesceStart /\ MediaStart

SpecHistNext == FilterAndSelectGifsForArtist \/ HistRestart

SpecHist == SpecHistInit /\ [][SpecHistNext]_vars

SpecReadInit ==
    ReadStart /\ (FsStart \/ FsStartNoFile) /\ RateStart /\ MvStart /\ DocStart
        /\ HistStart /\ DebounceStart /\ PublishStart /\ scene.deck1.track.artist = None /\ RateConcStart /\ StampStart /\ SweepStart /\ FlatStart /\ QuiesceStart /\ MediaStart

SpecReadNext ==
    \/ ReadCall \/ ReadExists \/ ReadOpen \/ ReadReturn
    \/ \E p \in Procs : ReadPublish(p)

SpecRead == SpecReadInit /\ [][SpecReadNext]_vars

\* the processor starts with or without the watchdog library
DebounceAnyStart ==
    /\ dbMode \in {"watchdog", "polling"}
    /\ dbThr = [t \in Threads |->
                    IF t = "main" THEN [IdleTrigger EXCEPT !.pc = "initial"] ELSE IdleTrigger]
    /\ dbLast = 0
    /\ dbPassed = <<>>

SpecDebounceInit ==
    DebounceAnyStart /\ PublishStart /\ RateStart /\ FsStart /\ MvStart /\ DocStart /\ HistStart
        /\ ReadStart /\ scene.deck1.track.artist = None /\ RateConcStart /\ StampStart /\ SweepStart /\ FlatStart /\ QuiesceStart /\ MediaStart

SpecDebounceNext ==
    \/ DocTick
    \/ \E t \in Threads : DebounceTrigger(t) \/ DebounceCheck(t) \/ DebounceProceed(t)

SpecDebounce == SpecDebounceInit /\ [][SpecDebounceNext]_vars

Init == DocStart /\ MvStart /\ RateStart /\ FsStart /\ HistStart /\ ReadStart /\ DebounceStart /\ PublishStart /\ RateConcStart /\ StampStart /\ SweepStart /\ FlatStart /\ QuiesceStart /\ MediaStart

Next ==
    \/ DocTick
    \/ ProducerCapture
    \/ ProducerWrite
    \/ ConsumerRead
    \/ ConsumerProcess
    \/ \E w \in mvWorkers : MvWorkerRun(w)

Spec == Init /\ [][Next]_vars

-----------------------------------------------------------------------------
(* Claims *)

\* C4: in-flight guard. For every track key at most one background fetch
\* worker started by _maybe_start_music_video_download is running at any
\* time, whichever threads made the calls.
C4_OneWorkerPerKey == \A k \in TrackKeys : Cardinality(MvFetching(k)) <= 1

\* C1: publishing is atomic for every reader. In every interleaving of the
\* write-staging and replace steps of save_metadata_to_json,
\* process_metadata_update and cleanup_djcap_json, the content at the
\* canonical path is one complete document written by a single publish call.
C1_AtomicPublish == fsCanon # 0 => FsComplete(fsInode[fsCanon])

\* timestamps of the deque that lie inside the trailing window
InWindow(ts, t) == {i \in 1..Len(ts) : ts[i] >= t - GiphyWindowTicks}

\* C5: rate-limit bound. After any admission decision the number of request
\* timestamps recorded inside the trailing window never exceeds
\* GIPHY_MAX_REQUESTS_PER_HOUR, for every cost value (cost 0 included).
C5_RateLimitBound ==
    Cardinality(InWindow(GiphyLoadedTs, rateNow)) <= GIPHY_MAX_REQUESTS_PER_HOUR

\* the keywords of the enrichment a deck dict carries
DeckKw(deck) == IF HasEnr(deck.cur) THEN deck.cur.kw ELSE deck.top.kw

\* C2: once the consumer has published enrichment for a deck whose
\* (title, artist) stays unchanged, no later publish by the producer or by
\* the consumer leaves the canonical document with that deck's enrichment
\* absent or replaced by an older version, in any interleaving of the two.
C2_EnrichmentNotUndone ==
    \A d \in DeckNames :
        pub[d].set =>
            /\ DeckEnriched(doc[d])
            /\ EnrichedAt(doc[d]) >= pub[d].at

\* a deck dict without the music-video result read from the fetch cache
WithoutMv(deck) ==
    [deck EXCEPT !.top.mv = "none",
                 !.cur = IF HasEnr(@) THEN [@ EXCEPT !.mv = "none"] ELSE @,
                 !.nxt = IF HasEnr(@) THEN [@ EXCEPT !.mv = "none"] ELSE @]

\* the enrichment a playing deck stores is the one of the track it shows:
\* same identity, keywords present, flat keys in place, no transition running
SettledEnrichment(deck) ==
    /\ HasEnr(deck.cur)
    /\ <<deck.cur.title, deck.cur.artist>> = Identity(deck)
    /\ deck.cur.kw # <<>>
    /\ deck.top.kw = deck.cur.kw
    /\ ~deck.trans.in_progress

C6_IdentityGatedPreservation ==
    \A d \in DeckNames :
        (/\ cyc.n >= 2
         /\ Identity(cyc.inp[d]) = Identity(prevOut[d])
         /\ Truthy(cyc.inp[d].title)
         /\ Truthy(cyc.inp[d].artist)
         /\ cyc.inp[d].cur = prevOut[d].cur
         /\ DeckEnriched(prevOut[d]))
        => /\ DeckEnriched(cyc.out[d])
           /\ DeckKw(cyc.out[d]) = DeckKw(prevOut[d])

\* C7: transition auto-expiry. A transition created at time T with duration
\* 2 is not in progress in the document of any cycle processed at T + 2 or
\* later, and a cycle that ends a transition leaves next_enriched cleared.
C7_TransitionExpires ==
    \A d \in DeckNames :
        cyc.n >= 1 =>
            /\ cyc.out[d].trans.in_progress
                  => cyc.at - cyc.out[d].trans.start_time < TRANSITION_DURATION
            /\ (cyc.inp[d].trans.in_progress /\ ~cyc.out[d].trans.in_progress)
                  => cyc.out[d].nxt = NoEnr

\* a processed cycle found a playing deck with a pending enrichment whose
\* transition had run its 2 seconds, and published it without either
C7_ExpiryHappened ==
    \E d \in DeckNames :
        /\ cyc.n >= 1
        /\ cyc.inp[d].active
        /\ cyc.inp[d].trans.in_progress
        /\ HasEnr(cyc.inp[d].nxt)
        /\ cyc.at - cyc.inp[d].trans.start_time >= TRANSITION_DURATION
        /\ ~cyc.out[d].trans.in_progress
        /\ cyc.out[d].nxt = NoEnr

\* C8: track-change edge. When a playing deck shows a (title, artist) that
\* differs from the identity of its stored current_enriched, the cycle
\* publishes next_enriched = the previous current_enriched, a new
\* current_enriched with the new identity and track_started_at = the time
\* of the cycle, and a transition in progress that starts at that time.
C8_TrackChangeEdge ==
    \A d \in DeckNames :
        (/\ cyc.n >= 1
         /\ cyc.inp[d].active
         /\ HasEnr(cyc.inp[d].cur)
         /\ <<cyc.inp[d].cur.title, cyc.inp[d].cur.artist>> # Identity(cyc.inp[d]))
        => /\ cyc.out[d].nxt = cyc.inp[d].cur
           /\ HasEnr(cyc.out[d].cur)
           /\ <<cyc.out[d].cur.title, cyc.out[d].cur.artist>> = Identity(cyc.inp[d])
           /\ cyc.out[d].cur.started = cyc.at
           /\ cyc.out[d].trans = [in_progress |-> TRUE, start_time |-> cyc.at]

\* C9: active-deck flap guard. A publish of a capture in which neither deck
\* plays leaves active_deck at the value published before, deck1 or deck2.
C9_NoActiveDeckFlap ==
    [][(/\ pPc = "merged"
        /\ pPc' = "idle"
        /\ doc # NoDoc
        /\ ~pPlay.deck1
        /\ ~pPlay.deck2)
       => doc'.active_deck = doc.active_deck]_vars

\* C10: after every processed cycle that read at least one active deck, the
\* published active_deck names a deck whose active flag is true in the
\* published document, and the active deck itself when only one is active.
C10_ActiveDeckNamesActive ==
    (cyc.n >= 1 /\ (cyc.inp.deck1.active \/ cyc.inp.deck2.active))
    => /\ cyc.out[cyc.out.active_deck].active
       /\ (cyc.inp.deck1.active /\ ~cyc.inp.deck2.active)
             => cyc.out.active_deck = "deck1"
       /\ (cyc.inp.deck2.active /\ ~cyc.inp.deck1.active)
             => cyc.out.active_deck = "deck2"

\* a processed cycle read deck2 as the only active deck and published
\* active_deck = deck2 with deck2 active
C10_Deck2Named ==
    /\ cyc.n >= 1
    /\ cyc.inp.deck2.active
    /\ ~cyc.inp.deck1.active
    /\ cyc.out.active_deck = "deck2"
    /\ cyc.out.deck2.active

\* ---- C11 ----------------------------------------------------------------
\* C11 as stated: when the candidate pool of a select call for an artist
\* holds at least max_count + M distinct media ids, the call returns no id
\* that the previous select call for that artist returned.
C11_NoRepeatInConsecutiveCalls ==
    (histCall.n > 0 /\ histCall.key # <<>>
        /\ Cardinality(histCall.ids) >= histCall.max_count + GIPHY_HISTORY_MAX_IDS_PER_ARTIST)
    => Range(histCall.selected) \cap histCall.prior = {}

\* C11 amended: the same, provided the previous call of this process run
\* returned at most M ids, so that the history still holds all of them.
C11_NoRepeatWhenHistoryHoldsPrevious ==
    (histCall.n > 0 /\ histCall.key # <<>>
        /\ Cardinality(histCall.prior) <= GIPHY_HISTORY_MAX_IDS_PER_ARTIST
        /\ Cardinality(histCall.ids) >= histCall.max_count + GIPHY_HISTORY_MAX_IDS_PER_ARTIST)
    => Range(histCall.selected) \cap histCall.prior = {}

\* a second call for the artist whose large pool offered ids of the first
C11_PreviousOffered ==
    /\ histCall.n > 0 /\ histCall.key # <<>>
    /\ histCall.prior # {}
    /\ Cardinality(histCall.prior) <= GIPHY_HISTORY_MAX_IDS_PER_ARTIST
    /\ histCall.prior \subseteq histCall.ids
    /\ Cardinality(histCall.ids) >= histCall.max_count + GIPHY_HISTORY_MAX_IDS_PER_ARTIST
    /\ Len(histCall.selected) = histCall.max_count

\* ---- C12 ----------------------------------------------------------------
\* C12 as stated: a select call whose pool has at least max_count distinct
\* items returns no id that is still in the artist's history.
C12_NoRepeatWhenPoolHasMaxCount ==
    (histCall.n > 0 /\ histCall.key # <<>>
        /\ Cardinality(histCall.ids) >= histCall.max_count)
    => Range(histCall.selected) \cap Range(histCall.before) = {}

\* C12 amended: a select call whose pool has at least max_count distinct
\* items that are not in the artist's history returns no id of the history;
\* a returned id of the history means fewer than max_count such items.
C12_NoRepeatWhenEnoughUnused ==
    (histCall.n > 0 /\ histCall.key # <<>>
        /\ Cardinality(histCall.ids \ Range(histCall.before)) >= histCall.max_count)
    => Range(histCall.selected) \cap Range(histCall.before) = {}

\* a call that was offered ids of the history next to enough unused ones
C12_UsedOffered ==
    /\ histCall.n > 0 /\ histCall.key # <<>>
    /\ histCall.ids \cap Range(histCall.before) # {}
    /\ Cardinality(histCall.ids \ Range(histCall.before)) >= histCall.max_count
    /\ Len(histCall.selected) = histCall.max_count

\* ---- C13 ----------------------------------------------------------------
\* C13: every artist's history queue holds at most M ids; a select leaves
\* the newest M of (queue before, then the selected ids in order), and a load
\* leaves the newest M of the non-empty ids of the file's list.
C13_HistoryBounded ==
    /\ \A k \in HistKeys : Len(hist[k]) <= GIPHY_HISTORY_MAX_IDS_PER_ARTIST
    /\ (histCall.n > 0 /\ histCall.key # <<>>) =>
        LET all == histCall.before \o histCall.selected
            q == hist[histCall.key]
        IN  /\ Len(q) = Min(Len(all), GIPHY_HISTORY_MAX_IDS_PER_ARTIST)
            /\ \A i \in 1..Len(q) : q[i] = all[Len(all) - Len(q) + i]
    /\ (histCall.n > 0 /\ histCall.fresh_load /\ histCall.ids # {}) =>
        LET c == SelectSeq(histCall.filed, LAMBDA x : x # 0)
            b == histCall.before
        IN  /\ Len(b) = Min(Len(c), GIPHY_HISTORY_MAX_IDS_PER_ARTIST)
            /\ \A i \in 1..Len(b) : b[i] = c[Len(c) - Len(b) + i]

\* a select on a loaded, over-long list that itself overflowed the queue
C13_Evicted ==
    /\ histCall.n > 0 /\ histCall.key # <<>>
    /\ histCall.fresh_load
    /\ Len(histCall.filed) > GIPHY_HISTORY_MAX_IDS_PER_ARTIST
    /\ Len(histCall.before) = GIPHY_HISTORY_MAX_IDS_PER_ARTIST
    /\ histCall.selected # <<>>

\* ---- C14 ----------------------------------------------------------------
\* C14: read_djcap_json never makes more than max_retries attempts; when it
\* returns no document because the staging file existed or the content did
\* not parse, it made all max_retries attempts before giving up; and the
\* caller then returns with its last-processed state as it was.
C14_ReadRetriesBeforeGivingUp ==
    /\ rd.made <= READ_MAX_RETRIES
    /\ (rd.out = "None" /\ rd.why \in {"staging", "JSONDecodeError", "empty"})
        => rd.made = READ_MAX_RETRIES
    /\ rd.out = "None" => last = rdSeen

C16_DebounceSpacing ==
    \A i, j \in 1..Len(dbPassed) :
        i < j => dbPassed[j] - dbPassed[i] >= DebounceTicks

\* C17: _maybe_start_music_video_download never starts a worker for a track
\* key whose cache entry is `ready`, and starts one for a key whose entry is
\* `error` or `empty` only when more than the cooldown has passed since the
\* entry's downloaded_at.
C17_DispatchRespectsCache ==
    [][\A t \in Threads :
          (mvThr[t].pc = "guard_passed" /\ mvStarted' = mvStarted + 1
              /\ mvThr'[t] = IdleThread)
          => LET entry == mvCache[mvThr[t].key] IN
             /\ entry.status # "ready"
             /\ entry.status \in {"error", "empty"}
                    => now - entry.downloaded_at > MV_RETRY_AFTER]_vars

\* C18: every started _worker thread returns; before it returns it has stored
\* an entry with status ready, empty or error under its track key, whatever
\* the download did, and when it returns its track key is out of
\* _music_video_inflight.
C18_WorkerEndsAndCleansUp ==
    /\ \A id \in MvWorkerIds : MvRunning(id) ~> MvEnded(id)
    /\ [][\A w \in mvWorkers :
             (\A v \in mvWorkers' : v.id # w.id)
             => /\ w.key \notin mvInflight'
                /\ w.pc = "stored" /\ w.fetched \in MvFetchOutcomes]_vars
    /\ [][\A w \in mvWorkers :
             (w.pc = "fetch" /\ \E v \in mvWorkers' : v.id = w.id /\ v.pc = "stored")
             => mvCache'[w.key].status \in MvTerminal]_vars

\* a worker whose download gave no video has stored its entry and has
\* returned, and its key is out of the in-flight set
C18_FailedWorkerEnded ==
    \E k \in TrackKeys :
        /\ mvCache[k].status = "empty"
        /\ mvStarted = 1 /\ MvEnded(1)
        /\ k \notin mvInflight

\* C19: when the download of a _worker fails (yt-dlp exits non-zero, or a
\* statement of the download raises) the entry the worker stores under the
\* track key has status `error`.
C19_FailedFetchStoredAsError ==
    [][\A w \in mvWorkers :
          (w.pc = "fetch"
              /\ \E v \in mvWorkers' :
                    v.id = w.id /\ v.pc = "stored" /\ v.fetched \in MvFetchFailures)
          => mvCache'[w.key].status = "error"]_vars

\* C20: after a cycle whose publish failed, the next call of
\* process_metadata_update that reads the same snapshot does not take the
\* "unchanged, skipping" return: it runs the cycle and reaches the publish
\* again, also when no deck of the snapshot is playing.
C20_FailedPublishRetried ==
    (cPc = "read" /\ unpublished.failed /\ cyc.n = unpublished.n
        /\ cData = unpublished.data)
    => ~SkipsCycle(cData, last)

\* C21: when process_metadata_update finds the document unparseable (empty,
\* or not valid JSON on every attempt), it goes on with its cycle as on a
\* first run instead of returning.
C21_UnparseableDocumentProcessed ==
    (rd.out = "None" /\ rd.why \in {"JSONDecodeError", "empty"}
        /\ rd.pc # "returned")
    => rd.pc = "cycle"

\* C22: a reconciliation cycle that starts a music-video fetch has, in the
\* same cycle, had _giphy_can_request return True and has recorded the request
\* with _giphy_record_request before the fetch starts.
C22_FetchAfterAdmission ==
    [][(cyc'.n = cyc.n + 1 /\ cyc'.started # {})
       => (rateAdmit' # NoCost /\ Len(rateTs') > Len(rateTs))]_vars

\* C23: with two threads running _giphy_can_request and _giphy_record_request
\* at once, the trailing window never holds more than
\* GIPHY_MAX_REQUESTS_PER_HOUR timestamps, and once both threads are done the
\* persisted state holds every timestamp that was recorded in the window.
C23_ConcurrentRateLimit ==
    /\ Cardinality(InWindow(GiphyLoadedTs, rateNow)) <= GIPHY_MAX_REQUESTS_PER_HOUR
    /\ (\A t \in DOMAIN rateThr : rateThr[t].pc = "idle")
        => Cardinality(InWindow(rateFile, rateNow))
               >= Cardinality(InWindow(rateMade, rateNow))

C25_ProducerWritesNoEnrichment ==
    [][(pPc = "idle" /\ pPc' = "merged")
       => LET snapshot == ExtractMetadata(scene'.deck1.track, scene'.deck2.track,
                                          scene'.deck1.playing, scene'.deck2.playing)
          IN  /\ pMeta'.active_deck = snapshot.active_deck
              /\ \A d \in DeckNames :
                    LET written == pMeta'[d]
                        existing == IF doc = NoDoc THEN snapshot[d] ELSE doc[d] IN
                    /\ BasicDeck(written) = BasicDeck(snapshot[d])
                    /\ written.cur = existing.cur
                    /\ written.nxt = existing.nxt
                    /\ written.trans = existing.trans
                    /\ \A f \in DOMAIN EmptyTop :
                          written.top[f] # EmptyTop[f]
                              => written.top[f] = existing.top[f]]_vars

\* the producer has merged a capture of another track into a document that
\* holds enrichment: the deck's current_enriched is carried over and its
\* top-level enrichment is dropped
C25_CarriedAndDropped ==
    /\ pPc = "merged"
    /\ doc # NoDoc
    /\ \E d \in DeckNames :
          /\ HasEnr(doc[d].cur) /\ pMeta[d].cur = doc[d].cur
          /\ doc[d].top # EmptyTop /\ pMeta[d].top = EmptyTop
          /\ pMeta[d].title # doc[d].title

\* C26: every publish, by the producer or by the consumer, sets the
\* document's last_updated to the time of that publish, so last_updated
\* never decreases
C26_PublishStampsFreshTime ==
    [][stampCount' # stampCount
          => (stampFile' = stampNow /\ stampFile' >= stampFile)]_vars

\* C27: when the producer has published a newer snapshot between the
\* consumer's read and its write, the document after the consumer's write
\* carries that newer snapshot's title, artist, bpm, active flags and
\* active_deck
C27_NoStaleOverwrite ==
    [][(cPc = "read" /\ cyc'.n = cyc.n + 1 /\ BasicData(doc) # BasicData(cData))
          => BasicData(doc') = BasicData(doc)]_vars

\* C28: a processed cycle that finds the deck inactive on its track for
\* longer than MUSIC_VIDEO_CLEANUP_THRESHOLD leaves none of the track's
\* music-video media on disk
C28_SweepDeletesStaleMedia ==
    [][(/\ swCycles' = swCycles + 1
        /\ ~swDeck.active
        /\ swNow - swStopped > MUSIC_VIDEO_CLEANUP_THRESHOLD)
          => ~swFile']_vars

\* deck d of the dict the consumer read is not playing and shows another
\* (title, artist) than its current_enriched is for
IdleOnNewTrack(data, d) ==
    /\ ~data[d].active
    /\ HasEnr(data[d].cur)
    /\ <<data[d].cur.title, data[d].cur.artist>> # Identity(data[d])

\* C29: a processed cycle on a deck that is not playing and shows a new
\* identity writes fresh keywords for the new identity, starts a fetch for the
\* new track, and writes none of the old identity's enrichment
C29_IdleChangeRecomputed ==
    [][\A d \in DeckNames :
          (cPc = "read" /\ cyc'.n = cyc.n + 1 /\ IdleOnNewTrack(cData, d))
            => /\ doc'[d].top.kw = EnrichDeckData(cData[d]).kw
               /\ TrackId(cData[d].title, cData[d].artist) \in cyc'.started
               /\ doc'[d].cur = NoEnr
               /\ doc'[d].top.kw # cData[d].cur.kw]_vars

\* C30: a processed cycle publishes for each deck what processing that deck
\* alone gives, and the document and the set of started fetches that
\* processing deck2 before deck1 gives
C30_DecksIndependent ==
    [][(cPc = "read" /\ cyc'.n = cyc.n + 1)
          => LET ctx == MvCtx(mvCache, mvInflight)
                 rev == ProcessBothDecksReversed(cData, ctx, now)
             IN  /\ doc' = rev.data
                 /\ cyc'.started = rev.ctx.started
                 /\ \A d \in DeckNames :
                       doc'[d] = ProcessDeckTransition(cData[d], cData[d].active,
                                                       ctx, now).deck]_vars

\* C31: no current_enriched or next_enriched of the published document holds
\* a current_enriched, next_enriched or transition key of its own
C31_PayloadsFlat ==
    \A d \in DeckNames : flDoc[d].cur.depth = 0 /\ flDoc[d].nxt.depth = 0

\* a track change has moved a payload to next_enriched and a new payload was
\* computed from the deck dict that holds both keys and a transition
C31_MovedAndRecomputed ==
    \E d \in DeckNames :
        /\ flDoc[d].cur.present /\ flDoc[d].nxt.present
        /\ flDoc[d].cur.track # flDoc[d].nxt.track
        /\ flDoc[d].trans = "in_progress"

\* C32: the cycle after one that recomputed the enrichment of a playing deck
\* with a non-empty artist, on the same basic fields, finds that enrichment
\* not stale (neither needs_enrichment nor _enriched_gif_policy_stale) and
\* leaves it as it is
C32_SelfHealConverges ==
    [][\A d \in DeckNames :
          (/\ cPc = "read" /\ cPc' = "idle"
           /\ cyc.n > 0
           /\ cData = cyc.out
           /\ cData[d].active /\ CurrentActiveDeck(cData) = d
           /\ Truthy(cData[d].artist)
           /\ HasEnr(cyc.out[d].cur)
           /\ cyc.out[d].cur # cyc.inp[d].cur)
            => /\ ~NeedsEnrichment(cData, d)
               /\ ~EnrichedGifPolicyStale(cData[d], cData[d].cur)
               /\ doc'[d].cur = cData[d].cur]_vars

-----------------------------------------------------------------------------
(***************************************************************************)
(* THE POLLING LOOP                                                        *)
(* Without watchdog, main polls os.path.getmtime of the document every     *)
(* POLL_SECONDS and runs process_metadata_update when it differs from      *)
(* last_mtime (lines 2264-2279); the debounce test passes, the polls being *)
(* further apart than DEBOUNCE_DELAY.  The clock is kept relative to the   *)
(* poll: every poll reads PollClock, and a stamp in the document reads     *)
(* POLL_SECONDS less at each later poll, down to 1.  No test of the cycle  *)
(* tells two stamps apart that are both older than TRANSITION_DURATION.    *)
(***************************************************************************)

\* time.sleep(1 if observer else 2), line 2279
POLL_SECONDS == 2

\* the reading of time.time() at a poll
PollClock == TRANSITION_DURATION + POLL_SECONDS + 1

\* the mtime a write gives the document: one the loop has not read since the
\* write before it (at most MaxCaptures + 1 writes fall between two reads)
NextMtime(m) == IF m >= MaxCaptures + 2 THEN 1 ELSE m + 1

\* a stamp as it reads one poll later; 0 is a missing stamp
StampAtNextPoll(x) ==
    IF x = 0 THEN 0
    ELSE IF x - POLL_SECONDS < 1 THEN 1
    ELSE x - POLL_SECONDS

EnrAtNextPoll(e) ==
    IF HasEnr(e) THEN [e EXCEPT !.started = StampAtNextPoll(@)] ELSE e

DeckAtNextPoll(deck) ==
    [deck EXCEPT !.cur = EnrAtNextPoll(@),
                 !.nxt = EnrAtNextPoll(@),
                 !.trans = [@ EXCEPT !.start_time = StampAtNextPoll(@)],
                 !.top = [@ EXCEPT !.started = StampAtNextPoll(@)]]

DocAtNextPoll(data) ==
    IF data = NoDoc THEN NoDoc
    ELSE [data EXCEPT !.deck1 = DeckAtNextPoll(@), !.deck2 = DeckAtNextPoll(@)]

\* djcap.py: one capture and save_metadata_to_json (lines 272-333); the
\* os.replace gives the document a new mtime
QuiesceProducerPublish ==
    /\ pN < MaxCaptures
    /\ \E sc \in SceneAfterDj(scene) :
        /\ scene' = sc
        /\ doc' = SaveMerge(ExtractMetadata(sc.deck1.track, sc.deck2.track,
                                            sc.deck1.playing, sc.deck2.playing),
                            doc)
    /\ pN' = pN + 1
    /\ qMtime' = NextMtime(qMtime)
    /\ UNCHANGED <<qLast, pPc, pMeta, pPlay, cPc, cData, cTime, last, cyc, prevOut, pub,
                   rateVars, fsVars, mvVars, histVars, readVars, debounceVars,
                   publishVars, rateConcVars, stampVars, sweepVars, flatVars, mediaVars>>

\* one iteration of the loop of main in polling mode (lines 2264-2279): the
\* mtime test, then process_metadata_update up to its publish, whose rename
\* gives the document a new mtime
QuiescePoll ==
    LET data == DocAtNextPoll(doc) IN
    /\ IF doc = NoDoc \/ qMtime = qLast
       THEN /\ doc' = data
            /\ UNCHANGED <<qMtime, qLast, last, mvCache, mvInflight, mvWorkers>>
       ELSE IF SkipsCycle(data, last)
       THEN /\ doc' = data
            /\ qLast' = qMtime
            /\ UNCHANGED <<qMtime, last, mvCache, mvInflight, mvWorkers>>
       ELSE LET r == ProcessBothDecks(data, MvCtx(mvCache, mvInflight), PollClock) IN
            /\ doc' = r.data
            /\ qLast' = qMtime
            /\ qMtime' = NextMtime(qMtime)
            /\ last' = [time |-> PollClock,
                        content |-> BasicData(data),
                        active_deck |-> CurrentActiveDeck(data),
                        deck1_active |-> PyBool(data.deck1.active),
                        deck2_active |-> PyBool(data.deck2.active)]
            /\ mvCache' = r.ctx.cache
            /\ mvInflight' = r.ctx.inflight
            /\ mvWorkers' = MvSpawnAll(mvWorkers, r.ctx.started)
    /\ UNCHANGED <<scene, pPc, pMeta, pPlay, pN, cPc, cData, cTime, cyc, prevOut, pub,
                   mvThr, mvStarted, now,
                   rateVars, fsVars, histVars, readVars, debounceVars,
                   publishVars, rateConcVars, stampVars, sweepVars, flatVars, mediaVars>>

SpecQuiesceInit == SpecRateInit

SpecQuiesceNext == QuiesceProducerPublish \/ QuiescePoll

\* the loop of main keeps running
SpecQuiesce == SpecQuiesceInit /\ [][SpecQuiesceNext]_vars /\ WF_vars(QuiescePoll)

\* the document shows a playing deck
QuiescePlaying == doc # NoDoc /\ \E d \in DeckNames : doc[d].active

\* C33: when the producer has stopped publishing and a deck keeps playing,
\* the consumer publishes only finitely often: from some poll on the mtime
\* of the document is the one the loop has already seen
C33_ConsumerQuiesces == <>[]QuiescePlaying => <>[](qMtime = qLast)

\* C34: a paused deck does not reset. When a deck was not playing in the
\* document of the previous processed cycle, carried enrichment there, and is
\* still not playing on the same (title, artist) in the next processed cycle,
\* that cycle publishes the deck with its enrichment (same keywords).
C34_PausedDeckDoesNotReset ==
    \A d \in DeckNames :
        (/\ cyc.n >= 2
         /\ ~prevOut[d].active
         /\ ~cyc.inp[d].active
         /\ Identity(cyc.inp[d]) = Identity(prevOut[d])
         /\ Truthy(cyc.inp[d].title)
         /\ Truthy(cyc.inp[d].artist)
         /\ DeckEnriched(prevOut[d]))
        => /\ DeckEnriched(cyc.out[d])
           /\ DeckKw(cyc.out[d]) = DeckKw(prevOut[d])

\* C35: track_started_at changes only when the identity changes. A processed
\* cycle that finds a playing deck with the current_enriched of the (title,
\* artist) it shows, stamped with a track_started_at, publishes that
\* current_enriched with the same track_started_at.
C35_TrackStartedAtKept ==
    \A d \in DeckNames :
        (/\ cyc.n >= 1
         /\ cyc.inp[d].active
         /\ HasEnr(cyc.inp[d].cur)
         /\ <<cyc.inp[d].cur.title, cyc.inp[d].cur.artist>> = Identity(cyc.inp[d])
         /\ cyc.inp[d].cur.started # 0)
        => /\ HasEnr(cyc.out[d].cur)
           /\ cyc.out[d].cur.started = cyc.inp[d].cur.started

-----------------------------------------------------------------------------
(***************************************************************************)
(* CLEANUP OF THE DOCUMENT                                                 *)
(* cleanup_output_folder calls cleanup_djcap_json when the document has    *)
(* grown past its size limit; djcap.py and djcap_processor.py both call it *)
(* every CLEANUP_CHECK_INTERVAL publishes.  The size of the document is    *)
(* not followed: the cleanup can run whenever the document exists.         *)
(***************************************************************************)

\* the value of a flat key after sanitize_deck_data: the deck's own, else the
\* one of current_enriched (lines 68-100)
SanitizedKey(own, current_enriched, inner) ==
    IF own # AbsentList THEN own
    ELSE IF HasEnr(current_enriched) THEN inner
    ELSE AbsentList

\* sanitize_deck_data (lines 45-124): basic_fields and enriched_fields are
\* kept, current_enriched is folded into them and dropped, next_enriched is
\* rebuilt from four of its keys; track_started_at and music_video_status
\* are in neither list
SanitizeDeckData(deck) ==
    [title |-> deck.title, artist |-> deck.artist, bpm |-> deck.bpm,
     active |-> deck.active,
     cur |-> NoEnr,
     nxt |-> IF HasEnr(deck.nxt)
             THEN [title |-> deck.nxt.title, artist |-> deck.nxt.artist,
                   kw |-> Prefix(deck.nxt.kw, 10),
                   gifs |-> Prefix(deck.nxt.gifs, 5),
                   pool |-> AbsentList, qp |-> AbsentList,
                   started |-> 0, mv |-> "none"]
             ELSE NoEnr,
     trans |-> deck.trans,
     top |-> [kw |-> SanitizedKey(deck.top.kw, deck.cur, IF HasEnr(deck.cur) THEN deck.cur.kw ELSE AbsentList),
              gifs |-> SanitizedKey(deck.top.gifs, deck.cur, IF HasEnr(deck.cur) THEN deck.cur.gifs ELSE AbsentList),
              pool |-> SanitizedKey(deck.top.pool, deck.cur, IF HasEnr(deck.cur) THEN deck.cur.pool ELSE AbsentList),
              qp |-> SanitizedKey(deck.top.qp, deck.cur, IF HasEnr(deck.cur) THEN deck.cur.qp ELSE AbsentList),
              started |-> 0, mv |-> "none"]]

\* cleanup_djcap_json (lines 127-162): the document read, both decks
\* sanitized, the result renamed over the document
CleanupDjcapJson ==
    /\ doc # NoDoc
    /\ doc' = [doc EXCEPT !.deck1 = SanitizeDeckData(@), !.deck2 = SanitizeDeckData(@)]
    /\ doc' # doc
    /\ UNCHANGED <<scene, pPc, pMeta, pPlay, pN, cPc, cData, cTime, last, cyc, prevOut, pub, notDoc>>

SpecCleanupInit == SpecCycleInit

SpecCleanupNext == DocTick \/ ConsumerRead \/ ConsumerProcess \/ CleanupDjcapJson

SpecCleanup == SpecCleanupInit /\ [][SpecCleanupNext]_vars

\* C36: a cleanup does not look like a track change. A processed cycle that
\* reads, for a playing deck, the sanitized form of the deck dict the cycle
\* before it published with the current_enriched of the track the deck shows,
\* starts no new transition and does not overwrite next_enriched.
C36_CleanupIsNoTrackChange ==
    \A d \in DeckNames :
        (/\ cyc.n >= 2
         /\ prevOut[d].active
         /\ HasEnr(prevOut[d].cur)
         /\ <<prevOut[d].cur.title, prevOut[d].cur.artist>> = Identity(prevOut[d])
         /\ cyc.inp[d] = SanitizeDeckData(prevOut[d]))
        => /\ ~(cyc.out[d].trans.in_progress /\ cyc.out[d].trans # cyc.inp[d].trans)
           /\ cyc.out[d].nxt \in {cyc.inp[d].nxt, NoEnr}

-----------------------------------------------------------------------------
(***************************************************************************)
(* A PUBLISH THAT FAILS                                                    *)
(* json.dump or the rename can raise (disk full, a value json cannot       *)
(* encode, a locked file).  Every publisher catches the exception and logs *)
(* it (djcap.py 339-344, djcap_processor.py 2172-2173, output_cleanup.py   *)
(* 183-185); none removes the staging file it has opened.                  *)
(***************************************************************************)

\* the publish of p raises after open(temp_file, 'w'): the with-block closes
\* the descriptor, the except clause logs, the staging path stays
FsPublishFails(p) ==
    /\ fsW[p].pc \in {"writing", "closed"}
    /\ LET w == [fsW EXCEPT ![p] = IdleWriter] IN
        /\ fsW' = w
        /\ fsInode' = FsReclaim(fsInode, fsTmp, fsCanon, w)
    /\ UNCHANGED <<fsTmp, fsCanon, fsPub, notFs>>

SpecReadFailInit == SpecRateInit

\* no writer is in the middle of a publish, and none starts one any more
PublishesOver ==
    /\ \A p \in Procs : fsW[p].pc = "idle"
    /\ fsPub["djcap"] + fsPub["processor"] >= MaxPublishes

\* the reader is called once the publishers have stopped
SpecReadFailNext ==
    \/ (PublishesOver /\ ReadCall) \/ ReadExists \/ ReadOpen \/ ReadReturn
    \/ \E p \in Procs : ReadPublish(p)
    \/ \E p \in Procs : FsPublishFails(p)

SpecReadFail == SpecReadFailInit /\ [][SpecReadFailNext]_vars

\* C37: a failed publish does not block readers. read_djcap_json, called
\* when no writer is in the middle of a publish, gives up on the staging file
\* (returns None after its last attempt found it) only while some writer is
\* in the middle of a publish.
C37_FailedPublishDoesNotBlock ==
    [][(/\ rd.pc = "exists"
        /\ rd'.pc = "returned"
        /\ rd'.why = "staging")
          => \E p \in Procs : fsW[p].pc # "idle"]_vars

\* the track key is in _music_video_inflight or has an entry in
\* _music_video_cache
MvCovered(inflight, cache, key) == key \in inflight \/ cache[key] # NoEntry

\* C38: from the dispatch of a worker until its entry is eligible for retry
\* the track key is in the in-flight set or in the cache (a key that is in
\* one of them leaves both only by the pop of an entry that is due for
\* retry), and no call starts a worker for a key that is in either.
C38_NoGapNoDuplicate ==
    [][/\ \A k \in TrackKeys :
            (MvCovered(mvInflight, mvCache, k) /\ ~MvCovered(mvInflight', mvCache', k))
                => MvShouldRetry(mvCache[k], now)
       /\ \A t \in Threads :
            (mvThr[t].pc = "guard_passed" /\ mvStarted' = mvStarted + 1
                /\ mvThr'[t] = IdleThread)
            => ~MvCovered(mvInflight, mvCache, mvThr[t].key)]_vars

\* C39: the cooldown of an `empty` entry is longer than that of an `error`
\* entry. A call of _maybe_start_music_video_download that goes past its
\* cache test on an `error` entry is made more than 10 seconds after the
\* entry's downloaded_at, and one that goes past it on an `empty` entry is
\* made more than 30 seconds after it.
C39_EmptyCooldownLonger ==
    [][\A t \in Threads :
          (mvThr[t].pc = "idle" /\ mvThr'[t].pc = "cache_checked")
          => LET entry == mvCache[mvThr'[t].key] IN
             /\ entry.status = "error"
                    => now - entry.downloaded_at > MV_RETRY_AFTER
             /\ entry.status = "empty"
                    => now - entry.downloaded_at > MV_EMPTY_RETRY_AFTER]_vars

-----------------------------------------------------------------------------
(***************************************************************************)
(* THE FRONTEND MEDIA CACHE                                                *)
(* frontend/server.py serves its requests one at a time                    *)
(* (socketserver.TCPServer).  prefetch_media keeps the deletion schedule   *)
(* of the buckets in state.json and is the only caller of                  *)
(* _cleanup_media_cache.  An entry of state["tracks"] is followed through  *)
(* its delete_after: None (scheduled FALSE) or a time.                     *)
(***************************************************************************)
notMedia == <<rateVars, fsVars, mvVars, docVars, histVars, readVars, debounceVars, publishVars, rateConcVars, stampVars, sweepVars, flatVars, quiesceVars>>

\* MEDIA_CACHE_DELETE_AFTER_S (line 31)
MEDIA_CACHE_DELETE_AFTER_S == 60

\* the clock advances in steps of MediaTickSeconds up to MaxMediaTime
MediaTickSeconds == 30
MaxMediaTime == 150

\* prefetch_media calls the model follows
MaxPrefetches == 4

\* {"delete_after": None}
KeptInfo == [present |-> TRUE, scheduled |-> FALSE, delete_after |-> 0]

\* a schedule that leaves the deadline of the prefetched track as it is
PrefetchScheduleKeepsDeadline(tracks, track_key, now_s) ==
    [k \in MediaKeys |->
        IF k = track_key
        THEN IF tracks[k].present THEN tracks[k] ELSE KeptInfo
        ELSE IF tracks[k].present /\ ~tracks[k].scheduled
        THEN [present |-> TRUE, scheduled |-> TRUE,
              delete_after |-> now_s + MEDIA_CACHE_DELETE_AFTER_S]
        ELSE tracks[k]]

\* prefetch_media, lines 321-331: the other tracks that have no deadline get
\* one, the prefetched track gets delete_after None
PrefetchSchedule(tracks, track_key, now_s) ==
    [k \in MediaKeys |->
        IF k = track_key THEN KeptInfo
        ELSE IF tracks[k].present /\ ~tracks[k].scheduled
        THEN [present |-> TRUE, scheduled |-> TRUE,
              delete_after |-> now_s + MEDIA_CACHE_DELETE_AFTER_S]
        ELSE tracks[k]]

\* _cleanup_media_cache, line 98: the keys whose delete_after has passed
MediaExpired(tracks, now_s) ==
    {k \in MediaKeys : /\ tracks[k].present
                       /\ tracks[k].scheduled
                       /\ tracks[k].delete_after <= now_s}

\* _cleanup_media_cache (lines 91-115): folder removed, key popped
CleanupMediaCache(tracks, folders, now_s) ==
    LET expired == MediaExpired(tracks, now_s) IN
    [tracks |-> [k \in MediaKeys |-> IF k \in expired THEN NoInfo ELSE tracks[k]],
     folders |-> folders \ expired]

MediaTick ==
    /\ mcNow + MediaTickSeconds <= MaxMediaTime
    /\ mcNow' = mcNow + MediaTickSeconds
    /\ UNCHANGED <<mcTracks, mcFolders, mcLog, notMedia>>

\* prefetch_media (lines 296-334): mkdir of the bucket, the schedule saved,
\* then the sweep, all at one reading of the clock
PrefetchMedia ==
    /\ Len(mcLog) < MaxPrefetches
    /\ \E track_key \in MediaKeys :
        LET scheduled == PrefetchSchedule(mcTracks, track_key, mcNow)
            swept == CleanupMediaCache(scheduled, mcFolders \cup {track_key}, mcNow)
        IN  /\ mcTracks' = swept.tracks
            /\ mcFolders' = swept.folders
            /\ mcLog' = Append(mcLog, [key |-> track_key, at |-> mcNow])
    /\ UNCHANGED <<mcNow, notMedia>>

SpecMediaInit == SpecRateInit

SpecMediaNext == MediaTick \/ PrefetchMedia

SpecMedia == SpecMediaInit /\ [][SpecMediaNext]_vars

\* the position in the log of the latest prefetch of a key, 0 if none
LatestPrefetch(log, k) ==
    IF \E i \in 1..Len(log) : log[i].key = k
    THEN CHOOSE i \in 1..Len(log) :
            /\ log[i].key = k
            /\ \A j \in (i + 1)..Len(log) : log[j].key # k
    ELSE 0

\* the prefetches of a different track that followed the latest one of k
OtherAfterLatest(log, k) ==
    {j \in (LatestPrefetch(log, k) + 1)..Len(log) : log[j].key # k}

\* at time t, MEDIA_CACHE_DELETE_AFTER_S have passed since the first prefetch
\* of a different track that followed the latest prefetch of k
RetentionOver(log, k, t) ==
    /\ LatestPrefetch(log, k) # 0
    /\ OtherAfterLatest(log, k) # {}
    /\ LET first == CHOOSE j \in OtherAfterLatest(log, k) :
                        \A i \in OtherAfterLatest(log, k) : j <= i
       IN  t >= log[first].at + MEDIA_CACHE_DELETE_AFTER_S

\* C40: frontend media cache retention. After every prefetch_media call the
\* bucket of the most recently prefetched track exists and has no deletion
\* time, and a bucket is deleted only by a sweep that runs at least
\* MEDIA_CACHE_DELETE_AFTER_S after the first prefetch of a different track
\* that followed its own latest prefetch.
C40_MediaRetention ==
    /\ [](mcLog # <<>> =>
            LET k == mcLog[Len(mcLog)].key IN
            /\ k \in mcFolders
            /\ mcTracks[k] = KeptInfo)
    /\ [][\A k \in MediaKeys :
            (k \in mcFolders /\ k \notin mcFolders')
                => RetentionOver(mcLog', k, mcNow)]_vars

\* a bucket was prefetched, then swept after its retention, while the bucket
\* of the latest prefetch is kept
C40_BucketSwept ==
    /\ mcLog # <<>>
    /\ mcLog[Len(mcLog)].key \in mcFolders
    /\ \E k \in MediaKeys :
        /\ LatestPrefetch(mcLog, k) # 0
        /\ k \notin mcFolders

=============================================================================
